---- MODULE Spec2Model ----
(***************************************************************************)
(* Model of the scheduling engine in src/src/lib/shiftScheduler.ts          *)
(* (class ShiftScheduler, lines 36-506).                                    *)
(*                                                                          *)
(* Representation.                                                          *)
(*  - A Date is a day number; day 0 is a Sunday, so getDay() is d % 7.  The *)
(*    ISO date string of a Date (toISOString().split('T')[0]) is the same   *)
(*    day number: Date values are taken to be UTC midnights handled in a    *)
(*    UTC process, where local calendar day and UTC calendar day agree.     *)
(*  - A time of day "HH:MM" is the pair <<HH, MM>>; the textual comparison  *)
(*    of two zero-padded "HH:MM" strings is the lexicographic one.          *)
(*  - Hours of workload are kept in minutes (the code divides by 60).       *)
(*  - employee.availability is kept as the set of keys whose value is       *)
(*    explicitly false (the only thing the code tests); a key               *)
(*    `${weekday}_AM` is the pair <<weekday, "AM">>.                        *)
(*  - employee.specificShiftPercentage is the set of its value, empty when  *)
(*    the field is absent.                                                  *)
(*  - A conflict string is the record of the values interpolated into it;   *)
(*    employee and shift names are represented by their ids.                *)
(***************************************************************************)
EXTENDS Integers, Sequences, FiniteSets, TLC

VARIABLES
  options,            \* ScheduleOptions given to the constructor (never written)
  assignments,        \* this.assignments
  conflicts,          \* this.conflicts
  employeeWorkloads,  \* this.employeeWorkloads
  pc,                 \* position inside schedule()
  currentDate,        \* schedule(): currentDate
  requiredShifts,     \* scheduleDay(): requiredShifts, sorted
  shiftIdx,           \* scheduleDay(): position in requiredShifts
  needed,             \* scheduleDay(): needed
  i,                  \* scheduleDay(): i
  ruleIdx,            \* enforceMandatoryFollowUps(): position in mandatoryRules
  fromAssignments,    \* enforceMandatoryFollowUps(): fromAssignments snapshot
  fromIdx,            \* enforceMandatoryFollowUps(): position in fromAssignments
  result,             \* the ScheduleResult statistics once schedule() returned
  earlier             \* the inputs and outputs of the preceding run, if any

vars == << options, assignments, conflicts, employeeWorkloads, pc, currentDate,
           requiredShifts, shiftIdx, needed, i, ruleIdx, fromAssignments,
           fromIdx, result, earlier >>

\* null / undefined
None == "null"

(***************************************************************************)
(* Generic sequence helpers (Array.prototype.filter / find / sort).         *)
(***************************************************************************)
RECURSIVE selectPrefix(_, _, _)
selectPrefix(s, keep, n) ==
  IF n = 0 THEN << >>
  ELSE IF n \in keep
       THEN Append(selectPrefix(s, keep, n - 1), s[n])
       ELSE selectPrefix(s, keep, n - 1)

\* the elements of s at the indices in keep, in order: SelectSeq with a named test set
SelectSeqOf(s, keep) == selectPrefix(s, keep, Len(s))

\* Op(e) with e evaluated once, whatever the number of its uses in Op
With(e, Op(_)) == CHOOSE v \in { Op(x) : x \in { e } } : TRUE

Range(s) == { s[k] : k \in 1..Len(s) }

Min(S) == CHOOSE x \in S : \A y \in S : x <= y

(***************************************************************************)
(* Weekdays: WEEKDAY_MAPPING and getWeekdayName.                            *)
(***************************************************************************)
WEEKDAY_MAPPING ==
  << "sunday", "monday", "tuesday", "wednesday", "thursday", "friday", "saturday" >>

WorkingDays == { "monday", "tuesday", "wednesday", "thursday", "friday" }

\* Date.getDay()
getDay(date) == date % 7

getWeekdayName(date) ==
  LET dayName == WEEKDAY_MAPPING[getDay(date) + 1]
  IN  IF dayName \in WorkingDays THEN dayName ELSE None

(***************************************************************************)
(* Duration calculator (in minutes).                                        *)
(***************************************************************************)
\* the duration without the correction of lines 85-87
calculateShiftDurationSameDay(shiftType) ==
  (shiftType.endTime[1] * 60 + shiftType.endTime[2])
    - (shiftType.startTime[1] * 60 + shiftType.startTime[2])

calculateShiftDuration(shiftType) ==
  LET startMinutes == shiftType.startTime[1] * 60 + shiftType.startTime[2]
      endMinutes0  == shiftType.endTime[1] * 60 + shiftType.endTime[2]
      endMinutes   == IF endMinutes0 < startMinutes
                      THEN endMinutes0 + 24 * 60 ELSE endMinutes0
  IN  endMinutes - startMinutes

\* textual "HH:MM" < "HH:MM"
TimeLess(a, b) == a[1] < b[1] \/ (a[1] = b[1] /\ a[2] < b[2])

(***************************************************************************)
(* Availability checker.                                                    *)
(***************************************************************************)
\* the check without the test of the working day (line 100)
isEmployeeAvailableAnyDay(employee, date, shiftType) ==
  LET weekday        == WEEKDAY_MAPPING[getDay(date) + 1]
      shiftStartHour == shiftType.startTime[1]
      shiftEndHour   == shiftType.endTime[1]
      nextWeekday    == getWeekdayName(date + 1)
  IN  IF shiftStartHour < 12 /\ << weekday, "AM" >> \in employee.availabilityFalse
      THEN FALSE
      ELSE IF (shiftEndHour >= 12 \/ (shiftStartHour >= 12 /\ shiftStartHour < 24))
              /\ << weekday, "PM" >> \in employee.availabilityFalse
      THEN FALSE
      ELSE IF TimeLess(shiftType.endTime, shiftType.startTime)
              /\ nextWeekday # None /\ shiftEndHour > 0 /\ shiftEndHour < 12
              /\ << nextWeekday, "AM" >> \in employee.availabilityFalse
      THEN FALSE
      ELSE TRUE

isEmployeeAvailable(employee, date, shiftType) ==
  LET weekday        == getWeekdayName(date)
      shiftStartHour == shiftType.startTime[1]
      shiftEndHour   == shiftType.endTime[1]
      nextWeekday    == getWeekdayName(date + 1)
  IN  IF weekday = None THEN FALSE
      ELSE IF shiftStartHour < 12 /\ << weekday, "AM" >> \in employee.availabilityFalse
      THEN FALSE
      ELSE IF (shiftEndHour >= 12 \/ (shiftStartHour >= 12 /\ shiftStartHour < 24))
              /\ << weekday, "PM" >> \in employee.availabilityFalse
      THEN FALSE
      ELSE IF TimeLess(shiftType.endTime, shiftType.startTime)
              /\ nextWeekday # None /\ shiftEndHour > 0 /\ shiftEndHour < 12
              /\ << nextWeekday, "AM" >> \in employee.availabilityFalse
      THEN FALSE
      ELSE TRUE

(***************************************************************************)
(* Qualification checker.  lehrjahr = 0 stands for an absent (falsy) year.  *)
(***************************************************************************)
\* the qualification check without the learning-year part (lines 137-142)
isEmployeeAllowed(opts, employee, shiftType) ==
  shiftType.id \in employee.allowedShifts

isEmployeeQualified(opts, employee, shiftType) ==
  IF shiftType.id \notin employee.allowedShifts THEN FALSE
  ELSE IF employee.employeeType = "azubi" /\ employee.lehrjahr # 0
  THEN LET quals == opts.learningYearQualifications
           hits  == { k \in 1..Len(quals) : quals[k].jahr = employee.lehrjahr }
       IN  IF hits = {} THEN FALSE
           ELSE shiftType.id \in quals[Min(hits)].qualifiedShiftTypes
  ELSE TRUE

(***************************************************************************)
(* Lookups: options.shiftTypes.find / options.employees.find.  The Known    *)
(* operators are the truthiness of the result of find.                      *)
(***************************************************************************)
shiftTypeKnown(opts, id) == \E k \in 1..Len(opts.shiftTypes) : opts.shiftTypes[k].id = id

findShiftType(opts, id) ==
  opts.shiftTypes[Min({ k \in 1..Len(opts.shiftTypes) : opts.shiftTypes[k].id = id })]

employeeKnown(opts, id) == \E k \in 1..Len(opts.employees) : opts.employees[k].id = id

findEmployee(opts, id) ==
  opts.employees[Min({ k \in 1..Len(opts.employees) : opts.employees[k].id = id })]

(***************************************************************************)
(* Rule engine: forbidden sequences.  The result is the kind of the message *)
(* returned (the rule name is not kept), or None.                           *)
(***************************************************************************)
RuleTargets(rule, shiftId) == shiftId \in rule.toShiftIds \/ rule.toShiftId = shiftId

\* this.assignments.find(a => a.employeeId, a.date, a.shiftId match)
holdsShift(asg, employeeId, date, shiftId) ==
  \E k \in 1..Len(asg) :
    /\ asg[k].employeeId = employeeId
    /\ asg[k].date = date
    /\ asg[k].shiftId = shiftId

\* the check that looks at the same and at the previous date whatever sameDay is
ruleConflictKindAnyDay(asg, rule, employee, date, shiftType) ==
  IF ~ ( rule.type = "forbidden_sequence" /\ rule.fromShiftId # None
         /\ (rule.toShiftId # None \/ rule.toShiftIds # {}) )
  THEN None
  ELSE IF holdsShift(asg, employee.id, date, rule.fromShiftId)
          /\ RuleTargets(rule, shiftType.id)
  THEN "Forbidden same-day sequence"
  ELSE IF holdsShift(asg, employee.id, date - 1, rule.fromShiftId)
          /\ RuleTargets(rule, shiftType.id)
  THEN "Forbidden next-day sequence"
  ELSE None

ruleConflictKind(asg, rule, employee, date, shiftType) ==
  IF ~ ( rule.type = "forbidden_sequence" /\ rule.fromShiftId # None
         /\ (rule.toShiftId # None \/ rule.toShiftIds # {}) )
  THEN None
  ELSE IF rule.sameDay
          /\ holdsShift(asg, employee.id, date, rule.fromShiftId)
          /\ RuleTargets(rule, shiftType.id)
  THEN "Forbidden same-day sequence"
  ELSE IF ~ rule.sameDay
          /\ holdsShift(asg, employee.id, date - 1, rule.fromShiftId)
          /\ RuleTargets(rule, shiftType.id)
  THEN "Forbidden next-day sequence"
  ELSE None

hasShiftRuleConflict(opts, asg, employee, date, shiftType) ==
  LET rules == opts.shiftRules
      hits  == { k \in 1..Len(rules) :
                   ruleConflictKind(asg, rules[k], employee, date, shiftType) # None }
  IN  IF hits = {} THEN None
      ELSE ruleConflictKind(asg, rules[Min(hits)], employee, date, shiftType)

(***************************************************************************)
(* Rule engine: mandatory follow-up, immediate form.  Returns the id of the *)
(* follow-up shift type, or None.                                           *)
(***************************************************************************)
followUpApplies(opts, rule, employee, date, shiftType) ==
  /\ rule.type = "mandatory_follow_up"
  /\ rule.fromShiftId = shiftType.id
  /\ rule.toShiftId # None
  /\ shiftTypeKnown(opts, rule.toShiftId)
  /\ isEmployeeQualified(opts, employee, findShiftType(opts, rule.toShiftId))
  /\ isEmployeeAvailable(employee, date, findShiftType(opts, rule.toShiftId))

Max(S) == CHOOSE x \in S : \A y \in S : x >= y

\* the loop without its early return: the last applicable rule wins
checkMandatoryFollowUpsLast(opts, employee, date, shiftType) ==
  LET rules == opts.shiftRules
      hits  == { k \in 1..Len(rules) :
                   followUpApplies(opts, rules[k], employee, date, shiftType) }
  IN  IF hits = {} THEN None ELSE rules[Max(hits)].toShiftId

checkMandatoryFollowUps(opts, employee, date, shiftType) ==
  LET rules == opts.shiftRules
      hits  == { k \in 1..Len(rules) :
                   followUpApplies(opts, rules[k], employee, date, shiftType) }
  IN  IF hits = {} THEN None ELSE rules[Min(hits)].toShiftId

(***************************************************************************)
(* Workload tracker.                                                        *)
(***************************************************************************)
\* lines 314-317 (and 68-71): hours, shifts, daysWorkedThisPeriod
addWorkload(workloads, employeeId, date, shiftType) ==
  [ workloads EXCEPT
      ![employeeId].hours = @ + calculateShiftDuration(shiftType),
      ![employeeId].shifts = @ + 1,
      ![employeeId].daysWorkedThisPeriod = @ \cup { date } ]

\* a comparator that puts the higher target percentage first
workloadBeforeByTarget(workloads, a, b) ==
  IF workloads[a.id].targetPercentage # workloads[b.id].targetPercentage
  THEN workloads[a.id].targetPercentage > workloads[b.id].targetPercentage
  ELSE IF workloads[a.id].shifts # workloads[b.id].shifts
  THEN workloads[a.id].shifts < workloads[b.id].shifts
  ELSE workloads[a.id].hours < workloads[b.id].hours

\* comparator of sortEmployeesByWorkload: a sorts strictly before b
workloadBefore(workloads, a, b) ==
  IF workloads[a.id].shifts # workloads[b.id].shifts
  THEN workloads[a.id].shifts < workloads[b.id].shifts
  ELSE workloads[a.id].hours < workloads[b.id].hours

RECURSIVE insertByWorkload(_, _, _)
\* insert e into the sorted sequence s after every element not after it (stable)
insertByWorkload(workloads, s, e) ==
  IF s = << >> THEN << e >>
  ELSE IF workloadBefore(workloads, e, s[Len(s)])
       THEN Append(insertByWorkload(workloads, SubSeq(s, 1, Len(s) - 1), e), s[Len(s)])
       ELSE Append(s, e)

RECURSIVE sortPrefixByWorkload(_, _, _)
sortPrefixByWorkload(workloads, s, n) ==
  IF n = 0 THEN << >>
  ELSE insertByWorkload(workloads, sortPrefixByWorkload(workloads, s, n - 1), s[n])

\* the employees left in input order
employeesInInputOrder(opts, workloads) == opts.employees

\* [...this.options.employees].sort(...): a stable sort
sortEmployeesByWorkload(opts, workloads) ==
  sortPrefixByWorkload(workloads, opts.employees, Len(opts.employees))

(***************************************************************************)
(* Assignment store: assignShift.  S is the pair of the fields it writes,   *)
(* [assignments, employeeWorkloads]; the result adds ok, the return value.  *)
(***************************************************************************)
\* the test negated: an employee counts as busy only through a follow-up
hasFollowUpOn(asg, employeeId, date) ==
  \E k \in 1..Len(asg) :
    asg[k].employeeId = employeeId /\ asg[k].date = date /\ asg[k].isFollowUp

\* lines 293-297, 417-421, 454-458: a primary assignment of the employee that date
hasPrimaryOn(asg, employeeId, date) ==
  \E k \in 1..Len(asg) :
    asg[k].employeeId = employeeId /\ asg[k].date = date /\ ~ asg[k].isFollowUp

\* line 283-286: any assignment, follow-up or not, of that date and shift
slotTaken(asg, date, shiftId) ==
  \E k \in 1..Len(asg) : asg[k].date = date /\ asg[k].shiftId = shiftId

newAssignment(employee, date, shiftType, isFollowUp) ==
  [ employeeId |-> employee.id, shiftId |-> shiftType.id, date |-> date,
    locked |-> FALSE, isFollowUp |-> isFollowUp ]

rejected(S) ==
  [ ok |-> FALSE, assignments |-> S.assignments,
    employeeWorkloads |-> S.employeeWorkloads ]

\* the push that leaves the workload of a follow-up out
pushAssignmentPrimaryLoad(S, employee, date, shiftType, isFollowUp) ==
  [ assignments |->
      Append(S.assignments, newAssignment(employee, date, shiftType, isFollowUp)),
    employeeWorkloads |->
      IF isFollowUp THEN S.employeeWorkloads
      ELSE addWorkload(S.employeeWorkloads, employee.id, date, shiftType) ]

\* lines 302-317: push the assignment, update the workload
pushAssignment(S, employee, date, shiftType, isFollowUp) ==
  [ assignments |->
      Append(S.assignments, newAssignment(employee, date, shiftType, isFollowUp)),
    employeeWorkloads |->
      addWorkload(S.employeeWorkloads, employee.id, date, shiftType) ]

RECURSIVE assignShift(_, _, _, _, _, _)

\* lines 302-325: the part of assignShift after its two checks
commitShift(opts, S, employee, date, shiftType, isFollowUp) ==
  With(pushAssignment(S, employee, date, shiftType, isFollowUp),
       LAMBDA S1 :
         LET followUpShift == checkMandatoryFollowUps(opts, employee, date, shiftType)
         IN  IF followUpShift # None /\ ~ isFollowUp
             THEN LET S2 == assignShift(opts, S1, employee, date,
                                        findShiftType(opts, followUpShift), TRUE)
                  IN  [ ok |-> TRUE, assignments |-> S2.assignments,
                        employeeWorkloads |-> S2.employeeWorkloads ]
             ELSE [ ok |-> TRUE, assignments |-> S1.assignments,
                    employeeWorkloads |-> S1.employeeWorkloads ])

\* assignShift without the test of the slot (lines 283-288)
assignShiftAnySlot(opts, S, employee, date, shiftType, isFollowUp) ==
  IF ~ isFollowUp /\ hasPrimaryOn(S.assignments, employee.id, date)
  THEN rejected(S)
  ELSE commitShift(opts, S, employee, date, shiftType, isFollowUp)

\* assignShift whose follow-up looks for a follow-up of its own, once
assignShiftChained(opts, S, employee, date, shiftType, isFollowUp) ==
  IF slotTaken(S.assignments, date, shiftType.id) /\ ~ isFollowUp
  THEN rejected(S)
  ELSE IF ~ isFollowUp /\ hasPrimaryOn(S.assignments, employee.id, date)
  THEN rejected(S)
  ELSE
    LET S1 == pushAssignment(S, employee, date, shiftType, isFollowUp)
        followUpShift == checkMandatoryFollowUps(opts, employee, date, shiftType)
        S2 == IF followUpShift = None THEN S1
              ELSE IF isFollowUp
              THEN pushAssignment(S1, employee, date,
                                  findShiftType(opts, followUpShift), TRUE)
              ELSE assignShift(opts, S1, employee, date,
                               findShiftType(opts, followUpShift), TRUE)
    IN  [ ok |-> TRUE, assignments |-> S2.assignments,
          employeeWorkloads |-> S2.employeeWorkloads ]

assignShift(opts, S, employee, date, shiftType, isFollowUp) ==
  IF slotTaken(S.assignments, date, shiftType.id) /\ ~ isFollowUp
  THEN rejected(S)
  ELSE IF ~ isFollowUp /\ hasPrimaryOn(S.assignments, employee.id, date)
  THEN rejected(S)
  ELSE commitShift(opts, S, employee, date, shiftType, isFollowUp)

(***************************************************************************)
(* Strategies.  Both walk the employees in workload order and commit to the *)
(* first one that passes the checks and that assignShift accepts.  The      *)
(* result is that of assignShift plus the employee committed to.            *)
(***************************************************************************)
\* the checks of a strategy without the availability check (line 429)
strategyAcceptsUnavailable(opts, asg, employee, date, shiftType, enforceRules) ==
  /\ ~ hasPrimaryOn(asg, employee.id, date)
  /\ isEmployeeQualified(opts, employee, shiftType)
  /\ (enforceRules => hasShiftRuleConflict(opts, asg, employee, date, shiftType) = None)

\* lines 417-437: the checks before assignShift
strategyAccepts(opts, asg, employee, date, shiftType, enforceRules) ==
  /\ ~ hasPrimaryOn(asg, employee.id, date)
  /\ isEmployeeQualified(opts, employee, shiftType)
  /\ isEmployeeAvailable(employee, date, shiftType)
  /\ (enforceRules => hasShiftRuleConflict(opts, asg, employee, date, shiftType) = None)

emergencyAccepts(opts, asg, employee, date, shiftType) ==
  /\ ~ hasPrimaryOn(asg, employee.id, date)
  /\ isEmployeeQualified(opts, employee, shiftType)

failed(S) ==
  [ ok |-> FALSE, assignments |-> S.assignments,
    employeeWorkloads |-> S.employeeWorkloads, employeeId |-> None ]

RECURSIVE strategyLoop(_, _, _, _, _, _, _)
\* the for loop of tryAssignShiftWithStrategy from position k of sortedEmployees
strategyLoop(opts, S, sortedEmployees, k, date, shiftType, enforceRules) ==
  IF k > Len(sortedEmployees) THEN failed(S)
  ELSE
    LET employee == sortedEmployees[k]
    IN  IF strategyAccepts(opts, S.assignments, employee, date, shiftType, enforceRules)
        THEN With(assignShift(opts, S, employee, date, shiftType, FALSE),
                  LAMBDA r :
                    IF r.ok
                    THEN [ ok |-> TRUE, assignments |-> r.assignments,
                           employeeWorkloads |-> r.employeeWorkloads,
                           employeeId |-> employee.id ]
                    ELSE strategyLoop(opts, S, sortedEmployees, k + 1, date, shiftType,
                                      enforceRules))
        ELSE strategyLoop(opts, S, sortedEmployees, k + 1, date, shiftType, enforceRules)

tryAssignShiftWithStrategy(opts, S, date, shiftType, enforceRules) ==
  With(sortEmployeesByWorkload(opts, S.employeeWorkloads),
       LAMBDA sortedEmployees :
         strategyLoop(opts, S, sortedEmployees, 1, date, shiftType, enforceRules))

RECURSIVE emergencyLoop(_, _, _, _, _, _)
emergencyLoop(opts, S, sortedEmployees, k, date, shiftType) ==
  IF k > Len(sortedEmployees) THEN failed(S)
  ELSE
    LET employee == sortedEmployees[k]
    IN  IF emergencyAccepts(opts, S.assignments, employee, date, shiftType)
        THEN With(assignShift(opts, S, employee, date, shiftType, FALSE),
                  LAMBDA r :
                    IF r.ok
                    THEN [ ok |-> TRUE, assignments |-> r.assignments,
                           employeeWorkloads |-> r.employeeWorkloads,
                           employeeId |-> employee.id ]
                    ELSE emergencyLoop(opts, S, sortedEmployees, k + 1, date, shiftType))
        ELSE emergencyLoop(opts, S, sortedEmployees, k + 1, date, shiftType)

\* the conflict message is pushed by the action TryEmergency
tryEmergencyAssignment(opts, S, date, shiftType) ==
  With(sortEmployeesByWorkload(opts, S.employeeWorkloads),
       LAMBDA sortedEmployees :
         emergencyLoop(opts, S, sortedEmployees, 1, date, shiftType))

(***************************************************************************)
(* Conflict messages.                                                       *)
(***************************************************************************)
UnassignedMsg(shiftType, date, position) ==
  [ kind |-> "Unassigned shift", employee |-> None, shift |-> shiftType.id,
    date |-> date, position |-> position, detail |-> None ]

EmergencyMsg(employeeId, shiftType, date) ==
  [ kind |-> "Emergency assignment", employee |-> employeeId, shift |-> shiftType.id,
    date |-> date, position |-> 0, detail |-> "may violate availability or rules" ]

FollowUpMsg(employeeId, shiftType, date, detail) ==
  [ kind |-> "Mandatory follow-up conflict", employee |-> employeeId,
    shift |-> shiftType.id, date |-> date, position |-> 0, detail |-> detail ]

\* the count without the filter on isFollowUp
assignmentCount(asg, date, shiftId) ==
  Cardinality({ k \in 1..Len(asg) : asg[k].date = date /\ asg[k].shiftId = shiftId })

\* number of primary assignments of (date, shiftId)
primaryCount(asg, date, shiftId) ==
  Cardinality({ k \in 1..Len(asg) :
                  asg[k].date = date /\ asg[k].shiftId = shiftId /\ ~ asg[k].isFollowUp })

(***************************************************************************)
(* Rule engine: mandatory follow-up, sweep form.  The body of the inner     *)
(* loop of enforceMandatoryFollowUps for one rule and one from-assignment;  *)
(* the result is the store with the conflict list.                          *)
(***************************************************************************)
sweepResult(asg, workloads, cfl) ==
  [ assignments |-> asg, employeeWorkloads |-> workloads, conflicts |-> cfl ]

\* the sweep that skips an occupied slot without reporting it (lines 244-247)
enforceFollowUpSilent(opts, S, cfl, rule, fromAssignment) ==
  IF ~ ( employeeKnown(opts, fromAssignment.employeeId)
         /\ shiftTypeKnown(opts, rule.toShiftId) )
  THEN sweepResult(S.assignments, S.employeeWorkloads, cfl)
  ELSE
    LET employee == findEmployee(opts, fromAssignment.employeeId)
        toShiftType == findShiftType(opts, rule.toShiftId)
        date == fromAssignment.date
        r == assignShift(opts, S, employee, date, toShiftType, TRUE)
    IN  IF holdsShift(S.assignments, employee.id, date, rule.toShiftId)
        THEN sweepResult(S.assignments, S.employeeWorkloads, cfl)
        ELSE IF primaryCount(S.assignments, date, rule.toShiftId) > 0
        THEN sweepResult(S.assignments, S.employeeWorkloads, cfl)
        ELSE IF ~ isEmployeeQualified(opts, employee, toShiftType)
        THEN sweepResult(S.assignments, S.employeeWorkloads,
               Append(cfl, FollowUpMsg(employee.id, toShiftType, date, "not qualified")))
        ELSE IF ~ isEmployeeAvailable(employee, date, toShiftType)
        THEN sweepResult(S.assignments, S.employeeWorkloads,
               Append(cfl, FollowUpMsg(employee.id, toShiftType, date, "not available")))
        ELSE sweepResult(r.assignments, r.employeeWorkloads, cfl)

\* the sweep without the test of the occupied slot (lines 237-247)
enforceFollowUpOverOccupied(opts, S, cfl, rule, fromAssignment) ==
  IF ~ ( employeeKnown(opts, fromAssignment.employeeId)
         /\ shiftTypeKnown(opts, rule.toShiftId) )
  THEN sweepResult(S.assignments, S.employeeWorkloads, cfl)
  ELSE
    LET employee == findEmployee(opts, fromAssignment.employeeId)
        toShiftType == findShiftType(opts, rule.toShiftId)
        date == fromAssignment.date
        r == assignShift(opts, S, employee, date, toShiftType, TRUE)
    IN  IF holdsShift(S.assignments, employee.id, date, rule.toShiftId)
        THEN sweepResult(S.assignments, S.employeeWorkloads, cfl)
        ELSE IF ~ isEmployeeQualified(opts, employee, toShiftType)
        THEN sweepResult(S.assignments, S.employeeWorkloads,
               Append(cfl, FollowUpMsg(employee.id, toShiftType, date, "not qualified")))
        ELSE IF ~ isEmployeeAvailable(employee, date, toShiftType)
        THEN sweepResult(S.assignments, S.employeeWorkloads,
               Append(cfl, FollowUpMsg(employee.id, toShiftType, date, "not available")))
        ELSE sweepResult(r.assignments, r.employeeWorkloads, cfl)

\* the sweep without the test of the follow-up already held (lines 228-235)
enforceFollowUpAgain(opts, S, cfl, rule, fromAssignment) ==
  IF ~ ( employeeKnown(opts, fromAssignment.employeeId)
         /\ shiftTypeKnown(opts, rule.toShiftId) )
  THEN sweepResult(S.assignments, S.employeeWorkloads, cfl)
  ELSE
    LET employee == findEmployee(opts, fromAssignment.employeeId)
        toShiftType == findShiftType(opts, rule.toShiftId)
        date == fromAssignment.date
        r == assignShift(opts, S, employee, date, toShiftType, TRUE)
    IN  IF primaryCount(S.assignments, date, rule.toShiftId) > 0
        THEN sweepResult(S.assignments, S.employeeWorkloads,
               Append(cfl, FollowUpMsg(employee.id, toShiftType, date, "slot is occupied")))
        ELSE IF ~ isEmployeeQualified(opts, employee, toShiftType)
        THEN sweepResult(S.assignments, S.employeeWorkloads,
               Append(cfl, FollowUpMsg(employee.id, toShiftType, date, "not qualified")))
        ELSE IF ~ isEmployeeAvailable(employee, date, toShiftType)
        THEN sweepResult(S.assignments, S.employeeWorkloads,
               Append(cfl, FollowUpMsg(employee.id, toShiftType, date, "not available")))
        ELSE sweepResult(r.assignments, r.employeeWorkloads, cfl)

enforceFollowUp(opts, S, cfl, rule, fromAssignment) ==
  IF ~ ( employeeKnown(opts, fromAssignment.employeeId)
         /\ shiftTypeKnown(opts, rule.toShiftId) )
  THEN sweepResult(S.assignments, S.employeeWorkloads, cfl)
  ELSE
    LET employee == findEmployee(opts, fromAssignment.employeeId)
        toShiftType == findShiftType(opts, rule.toShiftId)
        date == fromAssignment.date
        r == assignShift(opts, S, employee, date, toShiftType, TRUE)
    IN  IF holdsShift(S.assignments, employee.id, date, rule.toShiftId)
        THEN sweepResult(S.assignments, S.employeeWorkloads, cfl)
        ELSE IF primaryCount(S.assignments, date, rule.toShiftId) > 0
        THEN sweepResult(S.assignments, S.employeeWorkloads,
               Append(cfl, FollowUpMsg(employee.id, toShiftType, date, "slot is occupied")))
        ELSE IF ~ isEmployeeQualified(opts, employee, toShiftType)
        THEN sweepResult(S.assignments, S.employeeWorkloads,
               Append(cfl, FollowUpMsg(employee.id, toShiftType, date, "not qualified")))
        ELSE IF ~ isEmployeeAvailable(employee, date, toShiftType)
        THEN sweepResult(S.assignments, S.employeeWorkloads,
               Append(cfl, FollowUpMsg(employee.id, toShiftType, date, "not available")))
        ELSE sweepResult(r.assignments, r.employeeWorkloads, cfl)

(***************************************************************************)
(* scheduleDay helpers.                                                     *)
(***************************************************************************)
\* the need read with "|| 1": a need of zero counts as one
requiredOfDefaultOne(opts, weekday) ==
  LET sts == opts.shiftTypes
  IN  [ k \in 1..Len(sts) |->
          [ shiftType |-> sts[k],
            count |-> IF sts[k].weeklyNeeds[weekday] = 0 THEN 1
                      ELSE sts[k].weeklyNeeds[weekday] ] ]

\* lines 362-369: shift types with need > 0, in input order
requiredOf(opts, weekday) ==
  LET sts == opts.shiftTypes
  IN  SelectSeqOf([ k \in 1..Len(sts) |->
                      [ shiftType |-> sts[k], count |-> sts[k].weeklyNeeds[weekday] ] ],
                  { k \in 1..Len(sts) : sts[k].weeklyNeeds[weekday] > 0 })

RECURSIVE insertByStart(_, _)
insertByStart(s, r) ==
  IF s = << >> THEN << r >>
  ELSE IF r.shiftType.startTime[1] < s[Len(s)].shiftType.startTime[1]
       THEN Append(insertByStart(SubSeq(s, 1, Len(s) - 1), r), s[Len(s)])
       ELSE Append(s, r)

RECURSIVE sortPrefixByStart(_, _)
\* lines 372-376: stable sort by the start hour
sortPrefixByStart(s, n) ==
  IF n = 0 THEN << >> ELSE insertByStart(sortPrefixByStart(s, n - 1), s[n])

sortedRequiredShifts(opts, weekday) ==
  sortPrefixByStart(requiredOf(opts, weekday), Len(requiredOf(opts, weekday)))

(***************************************************************************)
(* countUnassignedShifts.                                                   *)
(***************************************************************************)
RECURSIVE sumNeedsSigned(_, _, _, _)
\* the sum of need - assigned without Math.max(0, ...) (line 492)
sumNeedsSigned(opts, asg, date, k) ==
  IF k = 0 THEN 0
  ELSE LET st == opts.shiftTypes[k]
       IN  sumNeedsSigned(opts, asg, date, k - 1)
             + st.weeklyNeeds[getWeekdayName(date)] - primaryCount(asg, date, st.id)

RECURSIVE sumNeeds(_, _, _, _)
\* sum over the shift types 1..k of max(0, need - assigned) on one working date
sumNeeds(opts, asg, date, k) ==
  IF k = 0 THEN 0
  ELSE LET st   == opts.shiftTypes[k]
           miss == st.weeklyNeeds[getWeekdayName(date)] - primaryCount(asg, date, st.id)
       IN  sumNeeds(opts, asg, date, k - 1) + (IF miss > 0 THEN miss ELSE 0)

RECURSIVE countFrom(_, _, _)
countFrom(opts, asg, date) ==
  IF date > opts.endDate THEN 0
  ELSE (IF getWeekdayName(date) # None
        THEN sumNeeds(opts, asg, date, Len(opts.shiftTypes)) ELSE 0)
       + countFrom(opts, asg, date + 1)

countUnassignedShifts(opts, asg) == countFrom(opts, asg, opts.startDate)

(***************************************************************************)
(* Constructor: initializeWorkloads.                                        *)
(***************************************************************************)
RECURSIVE replayWorkloads(_, _, _, _)
\* lines 64-74 over the first n assignments
replayWorkloads(opts, workloads, asg, n) ==
  IF n = 0 THEN workloads
  ELSE LET w == replayWorkloads(opts, workloads, asg, n - 1)
           a == asg[n]
       IN  IF employeeKnown(opts, a.employeeId) /\ shiftTypeKnown(opts, a.shiftId)
           THEN addWorkload(w, a.employeeId, a.date, findShiftType(opts, a.shiftId))
           ELSE w

\* lines 52-53: specificShiftPercentage ?? team?.overallShiftPercentage ?? 100
effectivePercentage(opts, employee) ==
  LET hits == { k \in 1..Len(opts.teams) : opts.teams[k].id = employee.teamId }
  IN  IF employee.specificShiftPercentage # {}
      THEN CHOOSE p \in employee.specificShiftPercentage : TRUE
      ELSE IF hits # {} THEN opts.teams[Min(hits)].overallShiftPercentage
      ELSE 100

initializeWorkloads(opts, asg) ==
  replayWorkloads(opts,
    [ id \in { opts.employees[k].id : k \in 1..Len(opts.employees) } |->
        [ hours |-> 0, shifts |-> 0,
          targetPercentage |->
            effectivePercentage(opts,
              opts.employees[Max({ k \in 1..Len(opts.employees) :
                                     opts.employees[k].id = id })]),
          daysWorkedThisPeriod |-> {} ] ],
    asg, Len(asg))

(***************************************************************************)
(* Inputs of a run: the bounded sets Init draws ScheduleOptions from.       *)
(***************************************************************************)
MaxNeed == 2
HorizonDays == 2

\* first day of the horizon: a Monday or a Friday
StartDates == { 1, 5 }

T(h, m) == << h, m >>

\* start and end times of the shift types X, Y, Z
TimeTables ==
  { [ X |-> << T(8, 0), T(16, 0) >>, Y |-> << T(14, 0), T(22, 0) >>,
      Z |-> << T(22, 0), T(6, 0) >> ],
    [ X |-> << T(8, 30), T(16, 30) >>, Y |-> << T(8, 0), T(11, 30) >>,
      Z |-> << T(22, 0), T(0, 30) >> ] }

NeedsOn(days, n) == [ wd \in WorkingDays |-> IF wd \in days THEN n ELSE 0 ]

FirstDays == { "monday", "friday" }

NeedProfilesX ==
  { NeedsOn({}, 0), NeedsOn(FirstDays, 1) }
    \cup { NeedsOn(WorkingDays, n) : n \in 1..MaxNeed }

NeedProfilesY == { NeedsOn({}, 0), NeedsOn(WorkingDays, 1) }

ShiftTypeOf(id, times, needs) ==
  [ id |-> id, startTime |-> times[1], endTime |-> times[2], weeklyNeeds |-> needs ]

ShiftTypeLists ==
  { << ShiftTypeOf("X", tt.X, nx), ShiftTypeOf("Y", tt.Y, ny),
       ShiftTypeOf("Z", tt.Z, NeedsOn({}, 0)) >> :
      tt \in TimeTables, nx \in NeedProfilesX, ny \in NeedProfilesY }

\* an employee of team "t1" without a percentage of its own
EmployeeOf(id, kind) ==
  [ id |-> id, employeeType |-> kind.employeeType, lehrjahr |-> kind.lehrjahr,
    teamId |-> "t1", specificShiftPercentage |-> {},
    allowedShifts |-> kind.allowedShifts, availabilityFalse |-> kind.availabilityFalse ]

Kind(type, jahr, allowed, unavailable) ==
  [ employeeType |-> type, lehrjahr |-> jahr, allowedShifts |-> allowed,
    availabilityFalse |-> unavailable ]

AllShifts == Kind("ausgelernt", 0, { "X", "Y", "Z" }, {})
OnlyX == Kind("ausgelernt", 0, { "X" }, {})
OnlyYZ == Kind("ausgelernt", 0, { "Y", "Z" }, {})

FirstEmployeeKinds ==
  { AllShifts, OnlyX,
    Kind("ausgelernt", 0, { "X", "Y", "Z" },
         { << "monday", "AM" >>, << "friday", "AM" >> }),
    Kind("ausgelernt", 0, { "X", "Y", "Z" },
         { << "monday", "PM" >>, << "friday", "PM" >>, << "tuesday", "AM" >> }),
    Kind("azubi", 1, { "X", "Y", "Z" },
         { << "monday", "AM" >>, << "friday", "AM" >> }),
    Kind("azubi", 2, { "X", "Y", "Z" }, {}),
    Kind("azubi", 0, { "X", "Y" }, {}) }

SecondEmployeeKinds == { AllShifts, OnlyX, OnlyYZ }

EmployeeLists ==
  { << EmployeeOf("e1", k1), EmployeeOf("e2", k2) >> :
      k1 \in FirstEmployeeKinds, k2 \in SecondEmployeeKinds }

\* trainees of year 1 may work X and Z; there is no record for year 2
QualificationList == << [ jahr |-> 1, qualifiedShiftTypes |-> { "X", "Z" } ] >>

Mandatory(from, to) ==
  [ type |-> "mandatory_follow_up", name |-> "mandatory", fromShiftId |-> from,
    toShiftId |-> to, toShiftIds |-> {}, sameDay |-> FALSE ]

Forbidden(from, to, tos, sameDay) ==
  [ type |-> "forbidden_sequence", name |-> "forbidden", fromShiftId |-> from,
    toShiftId |-> to, toShiftIds |-> tos, sameDay |-> sameDay ]

\* "W" is the id of no shift type
RuleLists ==
  { << >>,
    << Mandatory("X", "Y") >>,
    << Mandatory("X", "Y"), Mandatory("Y", "Z") >>,
    << Mandatory("X", "Y"), Mandatory("Y", "X") >>,
    << Mandatory("X", "Z"), Mandatory("X", "Y") >>,
    << Mandatory("X", None), Mandatory("Y", "W") >>,
    << Forbidden("X", "Y", {}, TRUE) >>,
    << Forbidden("X", None, { "Y", "Z" }, FALSE) >>,
    << Forbidden("X", "Y", {}, TRUE), Mandatory("Y", "Z") >> }

Existing(employeeId, shiftId, date, locked, isFollowUp) ==
  [ employeeId |-> employeeId, shiftId |-> shiftId, date |-> date,
    locked |-> locked, isFollowUp |-> isFollowUp ]

\* pre-existing assignments relative to the first day of the horizon;
\* "e0" is the id of no employee
ExistingLists(start) ==
  { << >>,
    << Existing("e1", "X", start, TRUE, FALSE) >>,
    << Existing("e1", "X", start, FALSE, TRUE) >>,
    << Existing("e0", "X", start, TRUE, FALSE) >>,
    << Existing("e2", "Y", start, TRUE, FALSE), Existing("e1", "X", start, TRUE, FALSE) >>,
    << Existing("e2", "X", start + 1, TRUE, FALSE),
       Existing("e2", "Y", start + 1, FALSE, TRUE) >> }

Team(id, percentage) == [ id |-> id, overallShiftPercentage |-> percentage ]

TeamList == << Team("t1", 80), Team("t2", 50) >>

\* options of a horizon of the given number of days
OptionsOver(days, start, es, sts, rs, ex) ==
  [ startDate |-> start, endDate |-> start + days - 1,
    employees |-> es, teams |-> TeamList, shiftTypes |-> sts,
    learningYearQualifications |-> QualificationList,
    shiftRules |-> rs, existingAssignments |-> ex ]

OptionsOf(start, es, sts, rs, ex) == OptionsOver(HorizonDays, start, es, sts, rs, ex)

(***************************************************************************)
(* The engine: constructor, then schedule() step by step.                   *)
(***************************************************************************)
NoResult == [ returned |-> FALSE, totalAssignments |-> 0, unassignedShifts |-> 0 ]

\* no run precedes
NoEarlier ==
  [ returned |-> FALSE, options |-> None, assignments |-> << >>, conflicts |-> << >>,
    employeeWorkloads |-> << >> ]

\* constructor (lines 42-48) on the given options
ConstructedOn(opts) ==
  /\ options = opts
  /\ assignments = opts.existingAssignments
  /\ conflicts = << >>
  /\ employeeWorkloads = initializeWorkloads(opts, opts.existingAssignments)
  /\ pc = "start"
  /\ currentDate = 0
  /\ requiredShifts = << >>
  /\ shiftIdx = 0
  /\ needed = 0
  /\ i = 0
  /\ ruleIdx = 0
  /\ fromAssignments = << >>
  /\ fromIdx = 0
  /\ result = NoResult
  /\ earlier = NoEarlier

\* the constructor for options drawn from the given lists
Constructed(employeeLists, shiftTypeLists, ruleLists) ==
  \E start \in StartDates, es \in employeeLists, sts \in shiftTypeLists,
     rs \in ruleLists :
    \E ex \in ExistingLists(start) : ConstructedOn(OptionsOf(start, es, sts, rs, ex))

Init == Constructed(EmployeeLists, ShiftTypeLists, RuleLists)

store == [ assignments |-> assignments, employeeWorkloads |-> employeeWorkloads ]

\* the store taken to be the caller's array itself, not a copy of it
storeIsAlias == FALSE

\* constructor, line 44: this.assignments is a copy ([...]) of the caller's array
storeIsCopy == TRUE

\* the caller's existingAssignments array as the caller sees it: its own content
\* when the store is a copy of it, the content of the store when it is the store
callerExistingAssignments ==
  IF storeIsCopy THEN options.existingAssignments ELSE assignments

shiftType == requiredShifts[shiftIdx].shiftType

\* enforceMandatoryFollowUps(): mandatoryRules (line 211)
mandatoryRules ==
  SelectSeqOf(options.shiftRules,
              { k \in 1..Len(options.shiftRules) :
                  options.shiftRules[k].type = "mandatory_follow_up" })

\* the day loop begun one day before options.startDate
ScheduleStartEarly ==
  /\ pc = "start"
  /\ conflicts' = << >>
  /\ currentDate' = options.startDate - 1
  /\ pc' = "day"
  /\ UNCHANGED << options, earlier, assignments, employeeWorkloads, requiredShifts, shiftIdx,
                  needed, i, ruleIdx, fromAssignments, fromIdx, result >>

\* schedule(), lines 329-332
ScheduleStart ==
  /\ pc = "start"
  /\ conflicts' = << >>
  /\ currentDate' = options.startDate
  /\ pc' = "day"
  /\ UNCHANGED << options, earlier, assignments, employeeWorkloads, requiredShifts, shiftIdx,
                  needed, i, ruleIdx, fromAssignments, fromIdx, result >>

\* schedule(), lines 334-342: a day that is no working day
SkipDay ==
  /\ pc = "day"
  /\ currentDate <= options.endDate
  /\ getWeekdayName(currentDate) = None
  /\ currentDate' = currentDate + 1
  /\ UNCHANGED << options, earlier, assignments, conflicts, employeeWorkloads, pc, requiredShifts,
                  shiftIdx, needed, i, ruleIdx, fromAssignments, fromIdx, result >>

\* scheduleDay(), lines 358-376
BeginDay ==
  /\ pc = "day"
  /\ currentDate <= options.endDate
  /\ getWeekdayName(currentDate) # None
  /\ requiredShifts' = sortedRequiredShifts(options, getWeekdayName(currentDate))
  /\ shiftIdx' = 1
  /\ pc' = "shift"
  /\ UNCHANGED << options, earlier, assignments, conflicts, employeeWorkloads, currentDate,
                  needed, i, ruleIdx, fromAssignments, fromIdx, result >>

\* scheduleDay(), lines 379-388: the next required shift type and its need
BeginShift ==
  /\ pc = "shift"
  /\ shiftIdx <= Len(requiredShifts)
  /\ needed' = requiredShifts[shiftIdx].count
                 - primaryCount(assignments, currentDate, shiftType.id)
  /\ i' = 0
  /\ pc' = "unit"
  /\ UNCHANGED << options, earlier, assignments, conflicts, employeeWorkloads, currentDate,
                  requiredShifts, shiftIdx, ruleIdx, fromAssignments, fromIdx, result >>

\* scheduleDay() returns: schedule(), line 341
EndDay ==
  /\ pc = "shift"
  /\ shiftIdx > Len(requiredShifts)
  /\ currentDate' = currentDate + 1
  /\ pc' = "day"
  /\ UNCHANGED << options, earlier, assignments, conflicts, employeeWorkloads, requiredShifts,
                  shiftIdx, needed, i, ruleIdx, fromAssignments, fromIdx, result >>

\* scheduleDay(), line 388: the loop over the needed units ends
EndShift ==
  /\ pc = "unit"
  /\ ~ (i < needed)
  /\ shiftIdx' = shiftIdx + 1
  /\ pc' = "shift"
  /\ UNCHANGED << options, earlier, assignments, conflicts, employeeWorkloads, currentDate,
                  requiredShifts, needed, i, ruleIdx, fromAssignments, fromIdx, result >>

\* scheduleDay(), lines 389-392: strategy 1
TryStrict ==
  /\ pc = "unit"
  /\ i < needed
  /\ \E r \in { tryAssignShiftWithStrategy(options, store, currentDate, shiftType, TRUE) } :
         /\ assignments' = r.assignments
         /\ employeeWorkloads' = r.employeeWorkloads
         /\ IF r.ok THEN i' = i + 1 /\ pc' = "unit"
                    ELSE i' = i /\ pc' = "relaxed"
  /\ UNCHANGED << options, earlier, conflicts, currentDate, requiredShifts, shiftIdx, needed,
                  ruleIdx, fromAssignments, fromIdx, result >>

\* scheduleDay(), lines 394-397: strategy 2
TryRelaxed ==
  /\ pc = "relaxed"
  /\ \E r \in { tryAssignShiftWithStrategy(options, store, currentDate, shiftType, FALSE) } :
         /\ assignments' = r.assignments
         /\ employeeWorkloads' = r.employeeWorkloads
         /\ IF r.ok THEN i' = i + 1 /\ pc' = "unit"
                    ELSE i' = i /\ pc' = "emergency"
  /\ UNCHANGED << options, earlier, conflicts, currentDate, requiredShifts, shiftIdx, needed,
                  ruleIdx, fromAssignments, fromIdx, result >>

\* scheduleDay(), lines 399-402 and tryEmergencyAssignment(), line 467: strategy 3
TryEmergency ==
  /\ pc = "emergency"
  /\ \E r \in { tryEmergencyAssignment(options, store, currentDate, shiftType) } :
         /\ assignments' = r.assignments
         /\ employeeWorkloads' = r.employeeWorkloads
         /\ IF r.ok
            THEN /\ conflicts' = Append(conflicts,
                                        EmergencyMsg(r.employeeId, shiftType, currentDate))
                 /\ i' = i + 1
                 /\ pc' = "unit"
            ELSE /\ conflicts' = conflicts
                 /\ i' = i
                 /\ pc' = "unassigned"
  /\ UNCHANGED << options, earlier, currentDate, requiredShifts, shiftIdx, needed,
                  ruleIdx, fromAssignments, fromIdx, result >>

\* scheduleDay(), lines 404-406
LogUnassigned ==
  /\ pc = "unassigned"
  /\ conflicts' = Append(conflicts, UnassignedMsg(shiftType, currentDate, i + 1))
  /\ i' = i + 1
  /\ pc' = "unit"
  /\ UNCHANGED << options, earlier, assignments, employeeWorkloads, currentDate, requiredShifts,
                  shiftIdx, needed, ruleIdx, fromAssignments, fromIdx, result >>

\* schedule(), lines 334 and 345: the day loop ends, the sweep begins
BeginSweep ==
  /\ pc = "day"
  /\ currentDate > options.endDate
  /\ ruleIdx' = 1
  /\ pc' = "sweepRule"
  /\ UNCHANGED << options, earlier, assignments, conflicts, employeeWorkloads, currentDate,
                  requiredShifts, shiftIdx, needed, i, fromAssignments, fromIdx, result >>

\* enforceMandatoryFollowUps(), lines 213-219: the next rule and its from-assignments
SweepRule ==
  /\ pc = "sweepRule"
  /\ ruleIdx <= Len(mandatoryRules)
  /\ LET rule == mandatoryRules[ruleIdx]
     IN  IF rule.toShiftId = None
         THEN /\ ruleIdx' = ruleIdx + 1
              /\ UNCHANGED << pc, fromAssignments, fromIdx >>
         ELSE /\ fromAssignments' =
                   SelectSeqOf(assignments,
                               { k \in 1..Len(assignments) :
                                   /\ assignments[k].shiftId = rule.fromShiftId
                                   /\ ~ assignments[k].isFollowUp })
              /\ fromIdx' = 1
              /\ pc' = "sweepFrom"
              /\ UNCHANGED ruleIdx
  /\ UNCHANGED << options, earlier, assignments, conflicts, employeeWorkloads, currentDate,
                  requiredShifts, shiftIdx, needed, i, result >>

\* enforceMandatoryFollowUps(), lines 221-262: one from-assignment
SweepFollowUp ==
  /\ pc = "sweepFrom"
  /\ fromIdx <= Len(fromAssignments)
  /\ \E r \in { enforceFollowUp(options, store, conflicts, mandatoryRules[ruleIdx],
                              fromAssignments[fromIdx]) } :
         /\ assignments' = r.assignments
         /\ employeeWorkloads' = r.employeeWorkloads
         /\ conflicts' = r.conflicts
  /\ fromIdx' = fromIdx + 1
  /\ UNCHANGED << options, earlier, pc, currentDate, requiredShifts, shiftIdx, needed, i,
                  ruleIdx, fromAssignments, result >>

\* enforceMandatoryFollowUps(), line 221: the from-assignments of a rule are done
SweepRuleDone ==
  /\ pc = "sweepFrom"
  /\ fromIdx > Len(fromAssignments)
  /\ ruleIdx' = ruleIdx + 1
  /\ pc' = "sweepRule"
  /\ UNCHANGED << options, earlier, assignments, conflicts, employeeWorkloads, currentDate,
                  requiredShifts, shiftIdx, needed, i, fromAssignments, fromIdx, result >>

\* schedule(), lines 347-355
Return ==
  /\ pc = "sweepRule"
  /\ ruleIdx > Len(mandatoryRules)
  /\ result' = [ returned |-> TRUE,
                 totalAssignments |-> Len(assignments),
                 unassignedShifts |-> countUnassignedShifts(options, assignments) ]
  /\ pc' = "done"
  /\ UNCHANGED << options, earlier, assignments, conflicts, employeeWorkloads, currentDate,
                  requiredShifts, shiftIdx, needed, i, ruleIdx, fromAssignments, fromIdx >>

Next ==
  \/ ScheduleStart
  \/ SkipDay
  \/ BeginDay
  \/ BeginShift
  \/ EndDay
  \/ EndShift
  \/ TryStrict
  \/ TryRelaxed
  \/ TryEmergency
  \/ LogUnassigned
  \/ BeginSweep
  \/ SweepRule
  \/ SweepFollowUp
  \/ SweepRuleDone
  \/ Return

Spec == Init /\ [][Next]_vars

(***************************************************************************)
(* Runs over rule lists whose mandatory follow-ups form a chain or a cycle, *)
(* with the fairness of a sequential program: schedule() runs on while a    *)
(* step is left.                                                            *)
(***************************************************************************)
ChainRuleLists ==
  { << Mandatory("X", "Y"), Mandatory("Y", "Z") >>,
    << Mandatory("X", "Y"), Mandatory("Y", "X") >>,
    << Mandatory("X", "Z"), Mandatory("X", "Y") >>,
    << Mandatory("X", None), Mandatory("Y", "W") >> }

ChainEmployeeLists ==
  { << EmployeeOf("e1", k1), EmployeeOf("e2", k2) >> :
      k1 \in { AllShifts,
               Kind("ausgelernt", 0, { "X", "Y", "Z" },
                    { << "monday", "AM" >>, << "friday", "AM" >> }) },
      k2 \in { AllShifts, OnlyYZ } }

ChainShiftTypeLists ==
  { << ShiftTypeOf("X", tt.X, NeedsOn(WorkingDays, n)), ShiftTypeOf("Y", tt.Y, ny),
       ShiftTypeOf("Z", tt.Z, NeedsOn({}, 0)) >> :
      tt \in TimeTables, n \in { 1, MaxNeed }, ny \in NeedProfilesY }

ChainInit == Constructed(ChainEmployeeLists, ChainShiftTypeLists, ChainRuleLists)

FairSpec == ChainInit /\ [][Next]_vars /\ WF_vars(Next)

(***************************************************************************)
(* Runs over a horizon of a week, Monday to Friday or Friday to Tuesday,    *)
(* with one or two employees.                                               *)
(***************************************************************************)
WeekDays == Cardinality(WorkingDays)

WeekEmployeeLists ==
  { << EmployeeOf("e1", k1) >> : k1 \in FirstEmployeeKinds }
    \cup { << EmployeeOf("e1", k1), EmployeeOf("e2", AllShifts) >> :
             k1 \in FirstEmployeeKinds }

WeekShiftTypeLists ==
  { << ShiftTypeOf("X", tt.X, nx), ShiftTypeOf("Y", tt.Y, ny),
       ShiftTypeOf("Z", tt.Z, NeedsOn({}, 0)) >> :
      tt \in TimeTables,
      nx \in { NeedsOn({ "monday" }, 1), NeedsOn(WorkingDays, MaxNeed) },
      ny \in NeedProfilesY }

WeekInit ==
  \E start \in StartDates, es \in WeekEmployeeLists, sts \in WeekShiftTypeLists,
     rs \in RuleLists :
    \E ex \in ExistingLists(start) :
      ConstructedOn(OptionsOver(WeekDays, start, es, sts, rs, ex))

WeekSpec == WeekInit /\ [][Next]_vars

(***************************************************************************)
(* Runs in which the shift type X starts and ends at any of a set of times  *)
(* of the day, with one employee.                                           *)
(***************************************************************************)
HoursOfDay == { 0, 6, 8, 9, 16, 22, 23 }

MinutesOfHour == { 0, 30, 59 }

TimesOfDay == { T(h, m) : h \in HoursOfDay, m \in MinutesOfHour }

DurationShiftTypeLists ==
  { << ShiftTypeOf("X", << from, to >>, NeedsOn(WorkingDays, 1)),
       ShiftTypeOf("Y", << T(14, 0), T(22, 0) >>, NeedsOn({}, 0)),
       ShiftTypeOf("Z", << T(22, 0), T(6, 0) >>, NeedsOn({}, 0)) >> :
      from \in TimesOfDay, to \in TimesOfDay }

DurationEmployeeLists ==
  { << EmployeeOf("e1", k1) >> :
      k1 \in { AllShifts, OnlyYZ,
               Kind("ausgelernt", 0, { "X", "Y", "Z" },
                    { << "monday", "AM" >>, << "monday", "PM" >>,
                      << "friday", "AM" >>, << "friday", "PM" >> }) } }

DurationInit ==
  \E start \in StartDates, es \in DurationEmployeeLists,
     sts \in DurationShiftTypeLists, rs \in { << >>, << Mandatory("X", "Y") >> } :
    ConstructedOn(OptionsOf(start, es, sts, rs, << >>))

DurationSpec == DurationInit /\ [][Next]_vars

(***************************************************************************)
(* Two runs in a row, generateShiftSchedule() called again on options that  *)
(* differ from those of the first run in the target percentages only: the   *)
(* employees' teamId and specificShiftPercentage and the teams'             *)
(* overallShiftPercentage.  "t0" is the id of no team.                      *)
(***************************************************************************)
PercentageProfiles ==
  { [ teams |-> TeamList, teamIds |-> << "t1", "t1" >>, specific |-> << {}, {} >> ],
    [ teams |-> TeamList, teamIds |-> << "t2", "t1" >>, specific |-> << {}, {} >> ],
    [ teams |-> << Team("t1", 20), Team("t2", 50) >>, teamIds |-> << "t1", "t0" >>,
      specific |-> << {}, {} >> ],
    [ teams |-> TeamList, teamIds |-> << "t1", "t1" >>, specific |-> << { 0 }, { 100 } >> ] }

PercentageVariants(opts) ==
  { [ opts EXCEPT
        !.teams = p.teams,
        !.employees =
          [ k \in 1..Len(opts.employees) |->
              [ opts.employees[k] EXCEPT !.teamId = p.teamIds[k],
                                         !.specificShiftPercentage = p.specific[k] ] ] ] :
      p \in PercentageProfiles }

TwinInit ==
  \E start \in StartDates, es \in ChainEmployeeLists, sts \in ChainShiftTypeLists,
     rs \in RuleLists :
    \E ex \in ExistingLists(start) :
      \E opts \in PercentageVariants(OptionsOf(start, es, sts, rs, ex)) :
        ConstructedOn(opts)

\* generateShiftSchedule(), lines 503-506, called once more: a new scheduler on
\* the varied options; the outputs of the first run are kept for comparison
Rerun ==
  /\ pc = "done"
  /\ ~ earlier.returned
  /\ earlier' = [ returned |-> TRUE, options |-> options, assignments |-> assignments,
                  conflicts |-> conflicts, employeeWorkloads |-> employeeWorkloads ]
  /\ \E opts \in PercentageVariants(options) \ { options } :
       /\ options' = opts
       /\ assignments' = opts.existingAssignments
       /\ employeeWorkloads' = initializeWorkloads(opts, opts.existingAssignments)
  /\ conflicts' = << >>
  /\ pc' = "start"
  /\ currentDate' = 0
  /\ requiredShifts' = << >>
  /\ shiftIdx' = 0
  /\ needed' = 0
  /\ i' = 0
  /\ ruleIdx' = 0
  /\ fromAssignments' = << >>
  /\ fromIdx' = 0
  /\ result' = NoResult

TwinNext == Next \/ Rerun

TwinSpec == TwinInit /\ [][TwinNext]_vars

(***************************************************************************)
(* Runs over rule lists of forbidden sequences: same-day and next-day       *)
(* rules, single and multiple targets, a rule without a from-shift, a rule  *)
(* without a target, and from-shifts held as follow-ups.  A rule whose      *)
(* sameDay is absent is one whose sameDay is FALSE: the code tests its      *)
(* truthiness only.                                                         *)
(***************************************************************************)
SequenceRuleLists ==
  { << Forbidden("X", "Y", {}, TRUE) >>,
    << Forbidden("X", None, { "Y", "Z" }, FALSE) >>,
    << Forbidden("Y", "X", {}, FALSE), Forbidden("X", "Y", { "Z" }, TRUE) >>,
    << Forbidden(None, "Y", {}, TRUE), Mandatory("X", "Y") >>,
    << Forbidden("X", None, {}, FALSE), Forbidden("Y", "Y", {}, FALSE) >>,
    << Mandatory("X", "Y"), Forbidden("Y", "X", {}, FALSE) >>,
    << Forbidden("X", None, { "Y", "Z" }, FALSE), Forbidden("X", "X", {}, TRUE) >> }

SequenceInit == Constructed(EmployeeLists, ShiftTypeLists, SequenceRuleLists)

SequenceSpec == SequenceInit /\ [][Next]_vars

(***************************************************************************)
(* Runs in which the shift type Z, needed every working day, starts in the  *)
(* evening or the afternoon and ends after midnight or at noon, and the     *)
(* first employee has one availability flag set to false.  The key          *)
(* saturday_AM is no key the engine reads.                                  *)
(***************************************************************************)
OvernightTimes ==
  { << T(22, 0), T(6, 0) >>, << T(22, 0), T(0, 30) >>, << T(22, 0), T(0, 0) >>,
    << T(23, 0), T(11, 59) >>, << T(22, 0), T(12, 0) >>, << T(13, 0), T(1, 0) >> }

OvernightShiftTypeLists ==
  { << ShiftTypeOf("X", << T(8, 0), T(16, 0) >>, nx),
       ShiftTypeOf("Y", << T(14, 0), T(22, 0) >>, NeedsOn({}, 0)),
       ShiftTypeOf("Z", tz, NeedsOn(WorkingDays, 1)) >> :
      nx \in { NeedsOn({}, 0), NeedsOn(FirstDays, 1) }, tz \in OvernightTimes }

FlagsSetFalse ==
  { {}, { << "tuesday", "AM" >> }, { << "tuesday", "PM" >> }, { << "monday", "AM" >> },
    { << "monday", "PM" >> }, { << "friday", "PM" >> }, { << "saturday", "AM" >> } }

OvernightEmployeeLists ==
  { << EmployeeOf("e1", Kind("ausgelernt", 0, { "X", "Y", "Z" }, flags)),
       EmployeeOf("e2", OnlyX) >> : flags \in FlagsSetFalse }

OvernightRuleLists ==
  { << >>, << Mandatory("X", "Z") >>, << Forbidden("X", None, { "Y", "Z" }, FALSE) >> }

OvernightInit ==
  Constructed(OvernightEmployeeLists, OvernightShiftTypeLists, OvernightRuleLists)

OvernightSpec == OvernightInit /\ [][Next]_vars

(***************************************************************************)
(* Runs over a horizon that begins on a Friday or on a Saturday, with       *)
(* pre-existing assignments dated on the Saturday and the Sunday.           *)
(***************************************************************************)
Saturday == 6

Sunday == 7

WeekendStartDates == { 5, Saturday }

WeekendExistingLists ==
  { << >>,
    << Existing("e1", "X", Saturday, TRUE, FALSE) >>,
    << Existing("e2", "X", Saturday, TRUE, FALSE),
       Existing("e2", "Y", Saturday, FALSE, TRUE) >>,
    << Existing("e1", "Y", Saturday, TRUE, FALSE),
       Existing("e2", "X", Saturday, TRUE, FALSE) >>,
    << Existing("e1", "X", Sunday, TRUE, FALSE),
       Existing("e0", "X", Saturday, TRUE, FALSE) >> }

WeekendInit ==
  \E start \in WeekendStartDates, es \in EmployeeLists, sts \in ChainShiftTypeLists,
     rs \in RuleLists, ex \in WeekendExistingLists :
    ConstructedOn(OptionsOf(start, es, sts, rs, ex))

WeekendSpec == WeekendInit /\ [][Next]_vars

(***************************************************************************)
(* Re-scheduling: after schedule() has returned, either a new scheduler is  *)
(* constructed on the same options with the returned assignment list as     *)
(* existingAssignments, or schedule() is called once more on the same       *)
(* scheduler.  The outputs of the first run are kept for comparison.        *)
(***************************************************************************)
AgainEmployeeLists ==
  { << EmployeeOf("e1", k1), EmployeeOf("e2", k2) >> :
      k1 \in { AllShifts,
               Kind("ausgelernt", 0, { "X", "Y", "Z" },
                    { << "monday", "AM" >>, << "friday", "AM" >> }),
               Kind("azubi", 1, { "X", "Y", "Z" },
                    { << "monday", "AM" >>, << "friday", "AM" >> }) },
      k2 \in SecondEmployeeKinds }

AgainInit == Constructed(AgainEmployeeLists, ChainShiftTypeLists, RuleLists)

\* the outputs of the run that has returned
Returned ==
  [ returned |-> TRUE, options |-> options, assignments |-> assignments,
    conflicts |-> conflicts, employeeWorkloads |-> employeeWorkloads ]

\* generateShiftSchedule(), lines 503-506, on the options of the first run with
\* existingAssignments replaced by the assignments it returned
Reschedule ==
  /\ pc = "done"
  /\ ~ earlier.returned
  /\ earlier' = Returned
  /\ options' = [ options EXCEPT !.existingAssignments = assignments ]
  /\ employeeWorkloads' = initializeWorkloads(options', assignments)
  /\ conflicts' = << >>
  /\ pc' = "start"
  /\ currentDate' = 0
  /\ requiredShifts' = << >>
  /\ shiftIdx' = 0
  /\ needed' = 0
  /\ i' = 0
  /\ ruleIdx' = 0
  /\ fromAssignments' = << >>
  /\ fromIdx' = 0
  /\ result' = NoResult
  /\ UNCHANGED assignments

\* schedule(), line 328, entered a second time on the same scheduler: its fields
\* are as the first call left them
ScheduleAgain ==
  /\ pc = "done"
  /\ ~ earlier.returned
  /\ earlier' = Returned
  /\ pc' = "start"
  /\ result' = NoResult
  /\ UNCHANGED << options, assignments, conflicts, employeeWorkloads, currentDate,
                  requiredShifts, shiftIdx, needed, i, ruleIdx, fromAssignments,
                  fromIdx >>

AgainNext == Next \/ Reschedule \/ ScheduleAgain

AgainSpec == AgainInit /\ [][AgainNext]_vars

(***************************************************************************)
(* Vocabulary of the properties.                                            *)
(***************************************************************************)
nExisting == Len(options.existingAssignments)

\* positions of the assignments committed by the engine in this run
Committed == (nExisting + 1)..Len(assignments)

Employees == Range(options.employees)

HasConflict(kind, employeeId, shiftId, date) ==
  \E k \in 1..Len(conflicts) :
    /\ conflicts[k].kind = kind
    /\ conflicts[k].employee = employeeId
    /\ conflicts[k].shift = shiftId
    /\ conflicts[k].date = date

IsPrimary(a) == ~ a.isFollowUp

NoTwoPrimariesPerSlot(asg) ==
  \A j, k \in 1..Len(asg) :
    (j < k /\ IsPrimary(asg[j]) /\ IsPrimary(asg[k]))
      => ~ (asg[j].date = asg[k].date /\ asg[j].shiftId = asg[k].shiftId)

OnePrimaryPerEmployeeDay(asg) ==
  \A j, k \in 1..Len(asg) :
    (j < k /\ IsPrimary(asg[j]) /\ IsPrimary(asg[k]))
      => ~ (asg[j].date = asg[k].date /\ asg[j].employeeId = asg[k].employeeId)

\* an employee the relaxed strategy would take for the current slot
FreeQualifiedAvailable(e) ==
  /\ ~ \E k \in 1..Len(assignments) :
         /\ assignments[k].employeeId = e.id
         /\ assignments[k].date = currentDate
         /\ IsPrimary(assignments[k])
  /\ isEmployeeQualified(options, e, shiftType)
  /\ isEmployeeAvailable(e, currentDate, shiftType)

(***************************************************************************)
(* C1: if no two pre-existing primary assignments share a (date, shiftId),  *)
(* then in every state of the run no two primary assignments of the store   *)
(* share a (date, shiftId).                                                 *)
(***************************************************************************)
C1_NoTwoPrimariesPerSlot ==
  NoTwoPrimariesPerSlot(options.existingAssignments)
    => NoTwoPrimariesPerSlot(assignments)

\* every strategy failed on a unit of a slot that a pre-seeded locked primary
\* occupies, although an employee is free that day and qualified for the shift
C1_Witness ==
  /\ pc = "unassigned"
  /\ \E k \in 1..nExisting :
       /\ assignments[k].date = currentDate
       /\ assignments[k].shiftId = shiftType.id
       /\ IsPrimary(assignments[k])
       /\ assignments[k].locked
  /\ \E e \in Employees : emergencyAccepts(options, assignments, e, currentDate, shiftType)

(***************************************************************************)
(* C2: if no employee holds two pre-existing primary assignments on one     *)
(* date, then in every state of the run every employee holds at most one    *)
(* primary assignment per date; follow-ups are not counted.                 *)
(***************************************************************************)
C2_OnePrimaryPerEmployeeDay ==
  OnePrimaryPerEmployeeDay(options.existingAssignments)
    => OnePrimaryPerEmployeeDay(assignments)

\* a slot stays empty although its only obstacle is that an employee who is
\* qualified and available for it holds a primary (and a follow-up) that day
C2_Witness ==
  /\ pc = "unassigned"
  /\ ~ slotTaken(assignments, currentDate, shiftType.id)
  /\ \E e \in Employees :
       /\ isEmployeeQualified(options, e, shiftType)
       /\ isEmployeeAvailable(e, currentDate, shiftType)
       /\ \E j, k \in Committed :
            /\ assignments[j].employeeId = e.id /\ assignments[j].date = currentDate
            /\ assignments[k].employeeId = e.id /\ assignments[k].date = currentDate
            /\ IsPrimary(assignments[j])
            /\ assignments[k].isFollowUp

Minutes(t) == t[1] * 60 + t[2]

Noon == 12 * 60

\* <weekday>_AM is false and the shift starts before 12:00, or <weekday>_PM is
\* false and the shift starts or ends at or after 12:00
SameDayFlagFalse(e, date, st) ==
  \/ /\ Minutes(st.startTime) < Noon
     /\ << WEEKDAY_MAPPING[(date % 7) + 1], "AM" >> \in e.availabilityFalse
  \/ /\ (Minutes(st.endTime) >= Noon \/ Minutes(st.startTime) >= Noon)
     /\ << WEEKDAY_MAPPING[(date % 7) + 1], "PM" >> \in e.availabilityFalse

CommittedToUnavailable(asg, k) ==
  /\ IsPrimary(asg[k])
  /\ SameDayFlagFalse(findEmployee(options, asg[k].employeeId), asg[k].date,
                      findShiftType(options, asg[k].shiftId))

C4_UnavailableIsLogged ==
  \A k \in Committed :
    CommittedToUnavailable(assignments, k)
      => HasConflict("Emergency assignment", assignments[k].employeeId,
                     assignments[k].shiftId, assignments[k].date)

C4_StrictRelaxedStep ==
  (pc \in { "unit", "relaxed" } /\ Len(assignments') > Len(assignments))
    => ~ CommittedToUnavailable(assignments', Len(assignments) + 1)

QualifiedBySpec(e, shiftId) ==
  /\ shiftId \in e.allowedShifts
  /\ (e.employeeType = "azubi" /\ e.lehrjahr # 0)
       => \E q \in Range(options.learningYearQualifications) :
            q.jahr = e.lehrjahr /\ shiftId \in q.qualifiedShiftTypes

C5_CommittedAreQualified ==
  \A k \in Committed :
    QualifiedBySpec(findEmployee(options, assignments[k].employeeId),
                    assignments[k].shiftId)

\* after a commit of the run, every strategy gave up a unit although a trainee
\* with a declared year is free that day and allowed, but not qualified for, the shift
C5_Witness ==
  /\ pc = "unassigned"
  /\ Committed # {}
  /\ \E e \in Employees :
       /\ e.employeeType = "azubi" /\ e.lehrjahr # 0
       /\ shiftType.id \in e.allowedShifts
       /\ ~ QualifiedBySpec(e, shiftType.id)
       /\ ~ \E j \in 1..Len(assignments) :
              assignments[j].employeeId = e.id /\ assignments[j].date = currentDate

(***************************************************************************)
(* C6: given a same-day forbidden_sequence rule from X to Y and an employee *)
(* who holds X on a date, as a primary or as a follow-up, every primary     *)
(* assignment of Y committed to that employee on that date afterwards has   *)
(* an "Emergency assignment" message in the conflict list.                  *)
(***************************************************************************)
ForbiddenRules ==
  { r \in Range(options.shiftRules) :
      r.type = "forbidden_sequence" /\ (r.toShiftId # None \/ r.toShiftIds # {}) }

\* the assignment at position k is a to-shift of rule r and an earlier position
\* holds the from-shift of r for the same employee, offset days before
Follows(asg, k, r, offset) ==
  /\ (asg[k].shiftId = r.toShiftId \/ asg[k].shiftId \in r.toShiftIds)
  /\ \E j \in 1..(k - 1) :
       /\ asg[j].employeeId = asg[k].employeeId
       /\ asg[j].shiftId = r.fromShiftId
       /\ asg[j].date = asg[k].date - offset

C6_SameDaySequenceOnlyByEmergency ==
  \A k \in Committed : \A r \in ForbiddenRules :
    (IsPrimary(assignments[k]) /\ r.sameDay /\ Follows(assignments, k, r, 0))
      => HasConflict("Emergency assignment", assignments[k].employeeId,
                     assignments[k].shiftId, assignments[k].date)

(***************************************************************************)
(* C7: when schedule() has returned, every assignment committed in          *)
(* violation of a forbidden_sequence rule (the employee held the from-shift *)
(* on the same date for a same-day rule, on the previous date otherwise)    *)
(* has a message for its employee, shift and date in the conflict list.     *)
(***************************************************************************)
C7_ViolationsAreLogged ==
  pc = "done" =>
    \A k \in Committed : \A r \in ForbiddenRules :
      Follows(assignments, k, r, IF r.sameDay THEN 0 ELSE 1)
        => \E c \in 1..Len(conflicts) :
             /\ conflicts[c].employee = assignments[k].employeeId
             /\ conflicts[c].shift = assignments[k].shiftId
             /\ conflicts[c].date = assignments[k].date

(***************************************************************************)
(* C8: when schedule() has returned, for every primary assignment of a      *)
(* known employee to X and every mandatory_follow_up rule from X to an      *)
(* existing shift type Y, the store holds an assignment of that employee to *)
(* Y on that date or the conflict list holds a "Mandatory follow-up         *)
(* conflict" message for that employee, Y and date.                         *)
(***************************************************************************)
MandatoryRulesTo ==
  { r \in Range(options.shiftRules) :
      /\ r.type = "mandatory_follow_up"
      /\ r.toShiftId # None
      /\ \E st \in Range(options.shiftTypes) : st.id = r.toShiftId }

C8_FollowUpOrConflict ==
  pc = "done" =>
    \A k \in 1..Len(assignments) : \A r \in MandatoryRulesTo :
      ( /\ IsPrimary(assignments[k])
        /\ assignments[k].shiftId = r.fromShiftId
        /\ \E e \in Employees : e.id = assignments[k].employeeId )
        => \/ \E j \in 1..Len(assignments) :
                /\ assignments[j].employeeId = assignments[k].employeeId
                /\ assignments[j].shiftId = r.toShiftId
                /\ assignments[j].date = assignments[k].date
           \/ HasConflict("Mandatory follow-up conflict", assignments[k].employeeId,
                          r.toShiftId, assignments[k].date)

\* the sweep reported a follow-up it could not attach and attached another one
\* to a pre-existing primary
C8_Witness ==
  /\ pc = "done"
  /\ \E c \in 1..Len(conflicts) : conflicts[c].kind = "Mandatory follow-up conflict"
  /\ \E k \in 1..nExisting : \E j \in Committed : \E r \in MandatoryRulesTo :
       /\ IsPrimary(assignments[k])
       /\ assignments[k].shiftId = r.fromShiftId
       /\ assignments[j].isFollowUp
       /\ assignments[j].shiftId = r.toShiftId
       /\ assignments[j].employeeId = assignments[k].employeeId
       /\ assignments[j].date = assignments[k].date

(***************************************************************************)
(* C9: the follow-up of a mandatory_follow_up rule is appended directly     *)
(* after the primary that triggers it.                                      *)
(***************************************************************************)
\* rule r asks for a follow-up of the primary at position k that its employee
\* is qualified and available for
Triggers(asg, k, r) ==
  /\ IsPrimary(asg[k])
  /\ asg[k].shiftId = r.fromShiftId
  /\ QualifiedBySpec(findEmployee(options, asg[k].employeeId), r.toShiftId)
  /\ isEmployeeAvailable(findEmployee(options, asg[k].employeeId), asg[k].date,
                         findShiftType(options, r.toShiftId))

FollowUpOf(a, shiftId) ==
  [ employeeId |-> a.employeeId, shiftId |-> shiftId, date |-> a.date,
    locked |-> FALSE, isFollowUp |-> TRUE ]

\* C9 as claimed: for every such rule
C9_EveryFollowUpImmediately ==
  \A k \in Committed : \A r \in MandatoryRulesTo :
    Triggers(assignments, k, r)
      => /\ k + 1 <= Len(assignments)
         /\ assignments[k + 1] = FollowUpOf(assignments[k], r.toShiftId)

\* the first rule of the rule list that triggers a follow-up of position k
FirstTrigger(asg, k) ==
  Min({ n \in 1..Len(options.shiftRules) :
          /\ options.shiftRules[n] \in MandatoryRulesTo
          /\ Triggers(asg, k, options.shiftRules[n]) })

\* C9 as amended: for the first such rule in the order of the rule list
C9_FirstFollowUpImmediately ==
  \A k \in Committed :
    (\E r \in MandatoryRulesTo : Triggers(assignments, k, r))
      => /\ k + 1 <= Len(assignments)
         /\ assignments[k + 1] =
              FollowUpOf(assignments[k],
                         options.shiftRules[FirstTrigger(assignments, k)].toShiftId)

\* a primary committed in the run is followed by the follow-up of the first of
\* two rules that both trigger
C9_Witness ==
  \E k \in Committed : \E r1, r2 \in MandatoryRulesTo :
    /\ r1 # r2
    /\ Triggers(assignments, k, r1)
    /\ Triggers(assignments, k, r2)
    /\ k + 1 <= Len(assignments)
    /\ assignments[k + 1].isFollowUp

(***************************************************************************)
(* C10: follow-up chaining has depth one and the run terminates: every      *)
(* follow-up committed in the run belongs to a primary assignment of the    *)
(* same employee and date through a mandatory_follow_up rule, a step        *)
(* commits at most a primary and one follow-up, and schedule() returns.     *)
(***************************************************************************)
C10_FollowUpsBelongToPrimaries ==
  \A k \in Committed :
    assignments[k].isFollowUp
      => \E j \in 1..Len(assignments) : \E r \in MandatoryRulesTo :
           /\ IsPrimary(assignments[j])
           /\ assignments[j].employeeId = assignments[k].employeeId
           /\ assignments[j].date = assignments[k].date
           /\ r.fromShiftId = assignments[j].shiftId
           /\ r.toShiftId = assignments[k].shiftId

C10_OneFollowUpPerStep ==
  /\ Len(assignments') <= Len(assignments) + 2
  /\ (pc = "sweepFrom" => Len(assignments') <= Len(assignments) + 1)

C10_DepthOneAndTermination ==
  /\ [] C10_FollowUpsBelongToPrimaries
  /\ [][C10_OneFollowUpPerStep]_vars
  /\ <> (pc = "done")

\* schedule() returned after committing a follow-up whose shift type is itself
\* the from-shift of a mandatory_follow_up rule the employee could be chained by
C10_Witness ==
  /\ pc = "done"
  /\ \E k \in Committed : \E r \in MandatoryRulesTo :
       /\ assignments[k].isFollowUp
       /\ r.fromShiftId = assignments[k].shiftId
       /\ QualifiedBySpec(findEmployee(options, assignments[k].employeeId), r.toShiftId)
       /\ isEmployeeAvailable(findEmployee(options, assignments[k].employeeId),
                              assignments[k].date, findShiftType(options, r.toShiftId))

(***************************************************************************)
(* Vocabulary of the statistics: the horizon's working dates, the need of a *)
(* shift type on a date and the primaries counted from the store.           *)
(***************************************************************************)
HorizonDates == options.startDate..options.endDate

WorkingDates == { d \in HorizonDates : getWeekdayName(d) # None }

ShiftTypes == Range(options.shiftTypes)

NeedOn(st, d) == st.weeklyNeeds[getWeekdayName(d)]

PrimariesOn(d, shiftId) ==
  { k \in 1..Len(assignments) :
      /\ assignments[k].date = d
      /\ assignments[k].shiftId = shiftId
      /\ IsPrimary(assignments[k]) }

\* one element per missing unit: the sum over working dates and shift types of
\* max(0, need - primaries)
MissingUnits ==
  { t \in WorkingDates \X ShiftTypes \X (1..MaxNeed) :
      /\ t[3] <= NeedOn(t[2], t[1])
      /\ t[3] > Cardinality(PrimariesOn(t[1], t[2].id)) }

\* employees qualified and available for every shift type needed on date d
StaffFor(d) ==
  { e \in Employees :
      \A st \in ShiftTypes :
        NeedOn(st, d) > 0
          => isEmployeeQualified(options, e, st) /\ isEmployeeAvailable(e, d, st) }

RECURSIVE sumOver(_, _, _)
sumOver(sts, d, n) ==
  IF n = 0 THEN 0 ELSE sumOver(sts, d, n - 1) + NeedOn(sts[n], d)

Headcount(d) == sumOver(options.shiftTypes, d, Len(options.shiftTypes))

(***************************************************************************)
(* C11: in a run without pre-existing assignments and without rules, if on  *)
(* every working date of the horizon the employees qualified and available  *)
(* for every shift type needed that date are at least as many as the        *)
(* headcount needed that date, then the unassignedShifts statistic of the   *)
(* result is zero.                                                          *)
(***************************************************************************)
C11_SurplusStaffFillsEveryNeed ==
  ( /\ pc = "done"
    /\ options.existingAssignments = << >>
    /\ options.shiftRules = << >>
    /\ \A d \in WorkingDates : Cardinality(StaffFor(d)) >= Headcount(d) )
    => result.unassignedShifts = 0

(***************************************************************************)
(* C12: in the result, totalAssignments is the length of the assignment     *)
(* list and unassignedShifts is the sum over the working dates of the       *)
(* horizon and the shift types of max(0, need - primaries of that date and  *)
(* shift type), both taken after the sweep.                                 *)
(***************************************************************************)
C12_StatisticsMatchStore ==
  pc = "done"
    => /\ result.totalAssignments = Len(assignments)
       /\ result.unassignedShifts = Cardinality(MissingUnits)

\* schedule() returned with a unit missing, in a slot that holds a follow-up, and
\* with a follow-up attached after the pre-existing assignments
C12_Witness ==
  /\ pc = "done"
  /\ nExisting > 0
  /\ \E k \in Committed : assignments[k].isFollowUp
  /\ \E t \in MissingUnits :
       \E k \in 1..Len(assignments) :
         /\ assignments[k].date = t[1]
         /\ assignments[k].shiftId = t[2].id
         /\ assignments[k].isFollowUp

(***************************************************************************)
(* C13: a run without pre-existing assignments in which every shift type    *)
(* has need zero on every weekday returns no assignment, no conflict and    *)
(* unassignedShifts = 0.                                                    *)
(***************************************************************************)
EmptyNeeds ==
  \A st \in ShiftTypes : \A wd \in WorkingDays : st.weeklyNeeds[wd] = 0

C13_EmptyNeedsEmptyResult ==
  (pc = "done" /\ options.existingAssignments = << >> /\ EmptyNeeds)
    => /\ assignments = << >>
       /\ conflicts = << >>
       /\ result.totalAssignments = 0
       /\ result.unassignedShifts = 0

\* such a run returned, with rules present and a working date in the horizon
C13_Witness ==
  /\ pc = "done"
  /\ options.existingAssignments = << >>
  /\ EmptyNeeds
  /\ options.shiftRules # << >>
  /\ WorkingDates # {}
  /\ result.returned

(***************************************************************************)
(* C14: every primary assignment committed by the engine is on a working    *)
(* date of the horizon for a shift type whose need that weekday is          *)
(* positive, and the primaries of that date and shift type do not exceed    *)
(* the need; and a run from Monday to Friday with one employee, qualified   *)
(* and available, weekly need {monday: 1} of one shift type, no rules and   *)
(* no pre-existing assignments returns exactly one assignment, on the       *)
(* Monday, no conflict and unassignedShifts = 0.                            *)
(***************************************************************************)
C14_OnlyWhereNeeded ==
  \A k \in Committed :
    IsPrimary(assignments[k])
      => /\ assignments[k].date \in WorkingDates
         /\ \E st \in ShiftTypes :
              /\ st.id = assignments[k].shiftId
              /\ NeedOn(st, assignments[k].date) > 0
              /\ Cardinality(PrimariesOn(assignments[k].date, st.id))
                   <= NeedOn(st, assignments[k].date)

\* scenario A: the Monday of the horizon is its first day
ScenarioA ==
  /\ getWeekdayName(options.startDate) = "monday"
  /\ options.endDate = options.startDate + WeekDays - 1
  /\ Len(options.employees) = 1
  /\ options.shiftRules = << >>
  /\ options.existingAssignments = << >>
  /\ \E st \in ShiftTypes :
       /\ st.weeklyNeeds = NeedsOn({ "monday" }, 1)
       /\ isEmployeeQualified(options, options.employees[1], st)
       /\ isEmployeeAvailable(options.employees[1], options.startDate, st)
       /\ \A other \in ShiftTypes \ { st } : other.weeklyNeeds = NeedsOn({}, 0)

C14_ScenarioAResult ==
  (pc = "done" /\ ScenarioA)
    => /\ Len(assignments) = 1
       /\ assignments[1].date = options.startDate
       /\ assignments[1].employeeId = options.employees[1].id
       /\ IsPrimary(assignments[1])
       /\ conflicts = << >>
       /\ result.totalAssignments = 1
       /\ result.unassignedShifts = 0

C14_DemandOnlyNoOverstaffing == C14_OnlyWhereNeeded /\ C14_ScenarioAResult

\* scenario A returned
C14_Witness == pc = "done" /\ ScenarioA /\ result.returned

(***************************************************************************)
(* C15: the pre-existing assignments are an unchanged prefix of the store   *)
(* in every state, every step leaves the store as it is or appends to it,   *)
(* and the caller's existingAssignments array keeps its content.            *)
(***************************************************************************)
IsPrefix(s, t) == Len(s) <= Len(t) /\ SubSeq(t, 1, Len(s)) = s

C15_ExistingIsPrefix ==
  /\ IsPrefix(options.existingAssignments, assignments)
  /\ callerExistingAssignments = options.existingAssignments

C15_StoreStep == IsPrefix(assignments, assignments')

C15_StoreOnlyGrows == [] C15_ExistingIsPrefix /\ [][C15_StoreStep]_vars

\* pre-existing assignments, one locked and one a follow-up, with a primary and
\* a follow-up committed behind them
C15_Witness ==
  /\ pc = "done"
  /\ \E j, k \in 1..nExisting : assignments[j].locked /\ assignments[k].isFollowUp
  /\ \E j, k \in Committed : IsPrimary(assignments[j]) /\ assignments[k].isFollowUp

(***************************************************************************)
(* C16: in every state the tracked shift count, hours and worked dates of   *)
(* every employee are those of the assignments of the store that belong to  *)
(* the employee and have a known shift type, follow-ups included, and a     *)
(* step changes the tracker only if it appends to the store.                *)
(***************************************************************************)
\* positions of the store that count for the employee
CountedFor(employeeId) ==
  { k \in 1..Len(assignments) :
      /\ assignments[k].employeeId = employeeId
      /\ \E st \in ShiftTypes : st.id = assignments[k].shiftId }

\* end - start in minutes, a day added when the end is before the start
MinutesOf(st) ==
  IF Minutes(st.endTime) < Minutes(st.startTime)
  THEN Minutes(st.endTime) + 24 * 60 - Minutes(st.startTime)
  ELSE Minutes(st.endTime) - Minutes(st.startTime)

RECURSIVE MinutesUpTo(_, _)
MinutesUpTo(employeeId, n) ==
  IF n = 0 THEN 0
  ELSE MinutesUpTo(employeeId, n - 1)
         + (IF n \in CountedFor(employeeId)
            THEN MinutesOf(CHOOSE st \in ShiftTypes : st.id = assignments[n].shiftId)
            ELSE 0)

C16_TrackerIsReplay ==
  /\ DOMAIN employeeWorkloads = { e.id : e \in Employees }
  /\ \A e \in Employees :
       /\ employeeWorkloads[e.id].shifts = Cardinality(CountedFor(e.id))
       /\ employeeWorkloads[e.id].hours = MinutesUpTo(e.id, Len(assignments))
       /\ employeeWorkloads[e.id].daysWorkedThisPeriod
            = { assignments[k].date : k \in CountedFor(e.id) }

C16_TrackerStep ==
  employeeWorkloads' # employeeWorkloads => Len(assignments') > Len(assignments)

C16_TrackerConsistency == [] C16_TrackerIsReplay /\ [][C16_TrackerStep]_vars

\* an employee tracked with a pre-existing assignment, a committed primary and a
\* committed follow-up, beside a pre-existing assignment of no known employee
C16_Witness ==
  /\ \E k \in 1..nExisting : \A e \in Employees : assignments[k].employeeId # e.id
  /\ \E e \in Employees :
       /\ employeeWorkloads[e.id].shifts >= 2
       /\ \E j, k \in Committed \cap CountedFor(e.id) :
            IsPrimary(assignments[j]) /\ assignments[k].isFollowUp

(***************************************************************************)
(* C17: two runs whose options differ only in the employees' teamId and     *)
(* specificShiftPercentage and the teams' overallShiftPercentage return the *)
(* same assignment list and the same conflict list, and workloads that      *)
(* differ in targetPercentage at most.                                      *)
(***************************************************************************)
PercentagesAside(opts) ==
  [ opts EXCEPT
      !.teams = << >>,
      !.employees =
        [ k \in 1..Len(opts.employees) |->
            [ opts.employees[k] EXCEPT !.teamId = None,
                                       !.specificShiftPercentage = {} ] ] ]

TargetAside(workloads) ==
  [ id \in DOMAIN workloads |-> [ workloads[id] EXCEPT !.targetPercentage = None ] ]

C17_PercentageIsInformational ==
  ( /\ pc = "done"
    /\ earlier.returned
    /\ PercentagesAside(options) = PercentagesAside(earlier.options) )
    => /\ assignments = earlier.assignments
       /\ conflicts = earlier.conflicts
       /\ TargetAside(employeeWorkloads) = TargetAside(earlier.employeeWorkloads)

\* the second run returned; the two runs gave an employee different target
\* percentages, both committed assignments to both employees and logged a conflict
C17_Witness ==
  /\ pc = "done"
  /\ earlier.returned
  /\ options # earlier.options
  /\ \E e \in Employees :
       employeeWorkloads[e.id].targetPercentage
         # earlier.employeeWorkloads[e.id].targetPercentage
  /\ \A e \in Employees : \E k \in Committed : assignments[k].employeeId = e.id
  /\ conflicts # << >>

(***************************************************************************)
(* C18: for every shift type, the duration in minutes is end - start when   *)
(* the end is not before the start and end + 1440 - start otherwise; it is  *)
(* not negative and below 1440; 22:00 to 06:00 gives 480, 08:00 to 16:00    *)
(* gives 480 and 09:00 to 09:00 gives 0.                                    *)
(***************************************************************************)
DurationOf(from, to) ==
  calculateShiftDuration([ startTime |-> from, endTime |-> to ])

C18_DurationWrapsMidnight ==
  /\ \A st \in ShiftTypes :
       LET d == calculateShiftDuration(st)
       IN  /\ Minutes(st.endTime) >= Minutes(st.startTime)
                => d = Minutes(st.endTime) - Minutes(st.startTime)
           /\ Minutes(st.endTime) < Minutes(st.startTime)
                => d = Minutes(st.endTime) + 1440 - Minutes(st.startTime)
           /\ d >= 0
           /\ d < 1440
  /\ DurationOf(T(22, 0), T(6, 0)) = 480
  /\ DurationOf(T(8, 0), T(16, 0)) = 480
  /\ DurationOf(T(9, 0), T(9, 0)) = 0

\* the engine committed a shift that ends before it starts and tracked its
\* duration, a minute short of a day
C18_Witness ==
  \E k \in Committed : \E st \in ShiftTypes :
    /\ st.id = assignments[k].shiftId
    /\ st.startTime = T(0, 30)
    /\ st.endTime = T(0, 0)
    /\ employeeWorkloads[assignments[k].employeeId].hours >= 1440 - 30

(***************************************************************************)
(* C19: within a working day the shift types with a need are processed in   *)
(* ascending order of their start time of day, hours and minutes, those     *)
(* with equal start time in input order; and the days are processed in      *)
(* chronological order.                                                     *)
(***************************************************************************)
\* position of the shift type in options.shiftTypes
InputPosition(st) ==
  CHOOSE k \in 1..Len(options.shiftTypes) : options.shiftTypes[k] = st

C19_AscendingStartTimes ==
  /\ \A j, k \in 1..Len(requiredShifts) :
       j < k =>
         LET a == requiredShifts[j].shiftType
             b == requiredShifts[k].shiftType
         IN  /\ Minutes(a.startTime) <= Minutes(b.startTime)
             /\ Minutes(a.startTime) = Minutes(b.startTime)
                  => InputPosition(a) < InputPosition(b)
  /\ \A j, k \in Committed :
       (j < k /\ IsPrimary(assignments[j]) /\ IsPrimary(assignments[k]))
         => assignments[j].date <= assignments[k].date

(***************************************************************************)
(* C20: a strategy that commits chooses, among the employees eligible for   *)
(* the slot under that strategy, one whose pair (shift count, hours) in the *)
(* tracker is minimal, and among the eligible employees with that same pair *)
(* the one earliest in the input list.                                      *)
(***************************************************************************)
\* eligible for the current slot under the strategy the engine is about to try
EligibleNow(e) ==
  /\ ~ \E k \in 1..Len(assignments) :
         /\ assignments[k].employeeId = e.id
         /\ assignments[k].date = currentDate
         /\ IsPrimary(assignments[k])
  /\ isEmployeeQualified(options, e, shiftType)
  /\ pc \in { "unit", "relaxed" } => isEmployeeAvailable(e, currentDate, shiftType)
  /\ pc = "unit"
       => hasShiftRuleConflict(options, assignments, e, currentDate, shiftType) = None

EmployeePosition(id) ==
  CHOOSE k \in 1..Len(options.employees) : options.employees[k].id = id

\* a is not after b in workload order
NotAfter(a, b) ==
  LET wa == employeeWorkloads[a]
      wb == employeeWorkloads[b]
  IN  \/ wa.shifts < wb.shifts
      \/ wa.shifts = wb.shifts /\ wa.hours < wb.hours
      \/ wa.shifts = wb.shifts /\ wa.hours = wb.hours
           /\ EmployeePosition(a) <= EmployeePosition(b)

C20_StrategyStep ==
  (pc \in { "unit", "relaxed", "emergency" } /\ Len(assignments') > Len(assignments))
    => LET chosen == assignments'[Len(assignments) + 1].employeeId
       IN  /\ \E e \in Employees : e.id = chosen /\ EligibleNow(e)
           /\ \A e \in Employees : EligibleNow(e) => NotAfter(chosen, e.id)

C20_FirstEligibleInWorkloadOrder == [][C20_StrategyStep]_vars

\* without rules, the primary of the current slot went to the second employee of
\* the input list although the first is still free that day, qualified and available
C20_Witness ==
  /\ pc = "unit"
  /\ options.shiftRules = << >>
  /\ Len(options.employees) = 2
  /\ FreeQualifiedAvailable(options.employees[1])
  /\ \E k \in Committed :
       /\ IsPrimary(assignments[k])
       /\ assignments[k].date = currentDate
       /\ assignments[k].shiftId = shiftType.id
       /\ assignments[k].employeeId = options.employees[2].id

(***************************************************************************)
(* C21: the strategies escalate in order for each needed unit: a step of    *)
(* the relaxed strategy commits only if no employee passes the strict       *)
(* checks for the slot in that state, a step of the emergency strategy      *)
(* commits only if no employee is free that date, qualified and available,  *)
(* and appends exactly one "Emergency assignment" message, and an           *)
(* "Unassigned shift" message is appended only if no employee is qualified  *)
(* for the slot and free of a primary that date.                            *)
(***************************************************************************)
\* free that date, qualified, available and without a forbidden sequence
PassesStrict(e) ==
  /\ FreeQualifiedAvailable(e)
  /\ hasShiftRuleConflict(options, assignments, e, currentDate, shiftType) = None

\* qualified for the current slot and free of a primary that date
FreeQualified(e) ==
  /\ ~ \E k \in 1..Len(assignments) :
         /\ assignments[k].employeeId = e.id
         /\ assignments[k].date = currentDate
         /\ IsPrimary(assignments[k])
  /\ isEmployeeQualified(options, e, shiftType)

\* the step appends a message of the kind to the conflict list
Logs(kind) ==
  /\ Len(conflicts') > Len(conflicts)
  /\ conflicts'[Len(conflicts')].kind = kind

C21_RelaxedStep ==
  (pc = "relaxed" /\ Len(assignments') > Len(assignments))
    => ~ \E e \in Employees : PassesStrict(e)

C21_EmergencyStep ==
  (pc = "emergency" /\ Len(assignments') > Len(assignments))
    => /\ ~ \E e \in Employees : FreeQualifiedAvailable(e)
       /\ Len(conflicts') = Len(conflicts) + 1
       /\ SubSeq(conflicts', 1, Len(conflicts)) = conflicts
       /\ Logs("Emergency assignment")

C21_UnassignedStep ==
  (pc = "unassigned" /\ Logs("Unassigned shift"))
    => ~ \E e \in Employees : FreeQualified(e)

C21_EscalationStep == C21_RelaxedStep /\ C21_EmergencyStep /\ C21_UnassignedStep

C21_EscalationInOrder == [][C21_EscalationStep]_vars

(***************************************************************************)
(* C22: the forbidden-sequence evaluation reports a conflict for an         *)
(* employee, a date and a candidate shift exactly when some                 *)
(* forbidden_sequence rule names the candidate shift as its to-shift or     *)
(* among its to-shifts and the employee holds the from-shift of the rule on *)
(* the same date if the rule is a same-day rule, on the preceding date      *)
(* otherwise.                                                               *)
(***************************************************************************)
\* the dates a candidate shift is evaluated for: the horizon and the day after
CandidateDates == options.startDate..(options.endDate + 1)

\* the employee holds the shift on the date, as a primary or as a follow-up
Holds(employeeId, shiftId, date) ==
  \E a \in Range(assignments) :
    a.employeeId = employeeId /\ a.shiftId = shiftId /\ a.date = date

SequenceForbids(e, date, st) ==
  \E r \in Range(options.shiftRules) :
    /\ r.type = "forbidden_sequence"
    /\ (st.id = r.toShiftId \/ st.id \in r.toShiftIds)
    /\ Holds(e.id, r.fromShiftId, IF r.sameDay THEN date ELSE date - 1)

C22_ForbiddenSequenceExactly ==
  \A e \in Employees : \A date \in CandidateDates : \A st \in ShiftTypes :
    (hasShiftRuleConflict(options, assignments, e, date, st) # None)
      <=> SequenceForbids(e, date, st)

\* the strict strategy has passed over an employee who is free, qualified and
\* available for a free slot because of a from-shift committed the day before,
\* while a same-day rule whose from-shift the employee held the day before, and
\* does not hold that day, reports nothing
C22_Witness ==
  /\ pc = "relaxed"
  /\ ~ slotTaken(assignments, currentDate, shiftType.id)
  /\ \E e \in Employees :
       /\ FreeQualifiedAvailable(e)
       /\ hasShiftRuleConflict(options, assignments, e, currentDate, shiftType)
            = "Forbidden next-day sequence"
       /\ \E k \in Committed :
            assignments[k].employeeId = e.id /\ assignments[k].date = currentDate - 1
       /\ \E r \in Range(options.shiftRules) : \E st \in ShiftTypes :
            /\ r.type = "forbidden_sequence" /\ r.sameDay
            /\ (st.id = r.toShiftId \/ st.id \in r.toShiftIds)
            /\ Holds(e.id, r.fromShiftId, currentDate - 1)
            /\ ~ Holds(e.id, r.fromShiftId, currentDate)
            /\ hasShiftRuleConflict(options, assignments, e, currentDate, st) = None

(***************************************************************************)
(* C23: for a shift type that ends at an earlier time of day than it starts *)
(* and whose end hour is before noon, the hour 00 included, on a working    *)
(* date whose next date is a working day, the availability check is false   *)
(* whenever the _AM flag of the next day is false; and on a date whose next *)
(* date is a Saturday the result of the check is the one it has with the    *)
(* flags of that date alone.                                                *)
(***************************************************************************)
Overnight(st) == Minutes(st.endTime) < Minutes(st.startTime)

NextMorningFalse(e, date) ==
  << WEEKDAY_MAPPING[((date + 1) % 7) + 1], "AM" >> \in e.availabilityFalse

\* the employee with the flags of the weekday of the date only
FlagsOfDateOnly(e, date) ==
  [ e EXCEPT !.availabilityFalse =
      { key \in @ : key[1] = WEEKDAY_MAPPING[(date % 7) + 1] } ]

C23_NextMorningOfOvernightShift ==
  \A e \in Employees : \A date \in WorkingDates : \A st \in ShiftTypes :
    /\ ( /\ Overnight(st)
         /\ st.endTime[1] < 12
         /\ (date + 1) % 7 \in 1..5
         /\ NextMorningFalse(e, date) )
         => ~ isEmployeeAvailable(e, date, st)
    /\ (date + 1) % 7 = 6
         => isEmployeeAvailable(e, date, st)
              = isEmployeeAvailable(FlagsOfDateOnly(e, date), date, st)

\* the claim for the end hours 01 to 11
C23_EndHoursOneToEleven ==
  \A e \in Employees : \A date \in WorkingDates : \A st \in ShiftTypes :
    /\ ( /\ Overnight(st)
         /\ st.endTime[1] \in 1..11
         /\ (date + 1) % 7 \in 1..5
         /\ NextMorningFalse(e, date) )
         => ~ isEmployeeAvailable(e, date, st)
    /\ (date + 1) % 7 = 6
         => isEmployeeAvailable(e, date, st)
              = isEmployeeAvailable(FlagsOfDateOnly(e, date), date, st)

(***************************************************************************)
(* C24: a step of the sweep for a primary of a known employee and a rule to *)
(* a known shift type changes nothing and logs nothing if the employee      *)
(* already holds an assignment of the follow-up shift on that date;         *)
(* otherwise, if another employee holds a primary of the follow-up shift on *)
(* that date or the employee is not qualified or not available for it, the  *)
(* step leaves the store and the tracker unchanged and appends exactly one  *)
(* "Mandatory follow-up conflict" message for that employee, shift and      *)
(* date.                                                                    *)
(***************************************************************************)
\* the step is the sweep's treatment of a from-assignment of a known employee
\* for a rule to a known shift type
SweepsKnown ==
  /\ pc = "sweepFrom"
  /\ fromIdx <= Len(fromAssignments)
  /\ \E e \in Employees : e.id = fromAssignments[fromIdx].employeeId
  /\ \E st \in ShiftTypes : st.id = mandatoryRules[ruleIdx].toShiftId

SweptEmployee ==
  CHOOSE e \in Employees : e.id = fromAssignments[fromIdx].employeeId

SweptShift ==
  options.shiftTypes[Min({ k \in 1..Len(options.shiftTypes) :
                             options.shiftTypes[k].id = mandatoryRules[ruleIdx].toShiftId })]

SweptDate == fromAssignments[fromIdx].date

AlreadyFollowedUp ==
  \E a \in Range(assignments) :
    a.employeeId = SweptEmployee.id /\ a.date = SweptDate /\ a.shiftId = SweptShift.id

FollowUpRejected ==
  \/ \E a \in Range(assignments) :
       /\ a.employeeId # SweptEmployee.id
       /\ a.date = SweptDate
       /\ a.shiftId = SweptShift.id
       /\ IsPrimary(a)
  \/ ~ isEmployeeQualified(options, SweptEmployee, SweptShift)
  \/ ~ isEmployeeAvailable(SweptEmployee, SweptDate, SweptShift)

C24_SweepStep ==
  SweepsKnown =>
    /\ AlreadyFollowedUp
         => /\ assignments' = assignments
            /\ employeeWorkloads' = employeeWorkloads
            /\ conflicts' = conflicts
    /\ (~ AlreadyFollowedUp /\ FollowUpRejected)
         => /\ assignments' = assignments
            /\ employeeWorkloads' = employeeWorkloads
            /\ Len(conflicts') = Len(conflicts) + 1
            /\ SubSeq(conflicts', 1, Len(conflicts)) = conflicts
            /\ conflicts'[Len(conflicts')].kind = "Mandatory follow-up conflict"
            /\ conflicts'[Len(conflicts')].employee = SweptEmployee.id
            /\ conflicts'[Len(conflicts')].shift = SweptShift.id
            /\ conflicts'[Len(conflicts')].date = SweptDate

C24_RejectedFollowUpChangesNothing == [][C24_SweepStep]_vars

\* schedule() returned after a sweep that met a primary whose follow-up was
\* attached at its commit, rejected a follow-up for an occupied slot and rejected
\* another one for an employee not qualified or not available
C24_Witness ==
  /\ pc = "done"
  /\ \E c \in Range(conflicts) :
       c.kind = "Mandatory follow-up conflict" /\ c.detail = "slot is occupied"
  /\ \E c \in Range(conflicts) :
       /\ c.kind = "Mandatory follow-up conflict"
       /\ c.detail \in { "not qualified", "not available" }
  /\ \E j, k \in Committed : \E r \in MandatoryRulesTo :
       /\ IsPrimary(assignments[j])
       /\ assignments[j].shiftId = r.fromShiftId
       /\ k = j + 1
       /\ assignments[k] = FollowUpOf(assignments[j], r.toShiftId)

(***************************************************************************)
(* C25: the engine commits no assignment dated on a Saturday or a Sunday:   *)
(* the strategies run on working dates only, and the sweep, met with a      *)
(* pre-existing primary on a weekend date that matches a                    *)
(* mandatory_follow_up rule, commits no follow-up.                          *)
(***************************************************************************)
Weekend(date) == date % 7 \in { 0, 6 }

C25_NoWeekendCommit ==
  /\ \A k \in Committed : ~ Weekend(assignments[k].date)
  /\ pc \in { "shift", "unit", "relaxed", "emergency", "unassigned" }
       => ~ Weekend(currentDate)

\* the message the step appends to the conflict list
Logged == conflicts'[Len(conflicts')]

LogsOne ==
  /\ Len(conflicts') = Len(conflicts) + 1
  /\ SubSeq(conflicts', 1, Len(conflicts)) = conflicts

\* C25 as claimed: such a primary yields a "not available" conflict
C25_WeekendSweepStepNotAvailable ==
  (SweepsKnown /\ Weekend(SweptDate))
    => /\ assignments' = assignments
       /\ LogsOne
       /\ Logged = FollowUpMsg(SweptEmployee.id, SweptShift, SweptDate, "not available")

C25_WeekendNotAvailable ==
  [] C25_NoWeekendCommit /\ [][C25_WeekendSweepStepNotAvailable]_vars

\* C25 as amended: such a primary yields nothing when the employee already holds
\* the follow-up shift that date, and otherwise one conflict: "slot is occupied"
\* when another employee holds a primary of the follow-up shift that date, else
\* "not qualified" when the employee is not qualified for it, else "not available"
C25_WeekendSweepStep ==
  (SweepsKnown /\ Weekend(SweptDate))
    => /\ assignments' = assignments
       /\ employeeWorkloads' = employeeWorkloads
       /\ IF AlreadyFollowedUp THEN conflicts' = conflicts
          ELSE /\ LogsOne
               /\ Logged =
                    FollowUpMsg(SweptEmployee.id, SweptShift, SweptDate,
                      IF \E a \in Range(assignments) :
                           /\ a.date = SweptDate /\ a.shiftId = SweptShift.id
                           /\ IsPrimary(a)
                      THEN "slot is occupied"
                      ELSE IF ~ isEmployeeQualified(options, SweptEmployee, SweptShift)
                      THEN "not qualified"
                      ELSE "not available")

C25_NoWeekendAssignment ==
  [] C25_NoWeekendCommit /\ [][C25_WeekendSweepStep]_vars

\* schedule() returned over a horizon with a Saturday, after commits on the
\* Friday, one of them by the emergency strategy, and a "not available" conflict
\* for the follow-up of a pre-existing primary of the Saturday
C25_Witness ==
  /\ pc = "done"
  /\ \E d \in HorizonDates : Weekend(d)
  /\ Committed # {}
  /\ \E c \in Range(conflicts) : c.kind = "Emergency assignment"
  /\ \E k \in 1..nExisting : \E c \in Range(conflicts) :
       /\ IsPrimary(assignments[k])
       /\ Weekend(assignments[k].date)
       /\ c.kind = "Mandatory follow-up conflict"
       /\ c.detail = "not available"
       /\ c.employee = assignments[k].employeeId
       /\ c.date = assignments[k].date

(***************************************************************************)
(* C26: when schedule() has returned, the number of "Unassigned shift"      *)
(* messages of the conflict list is the unassignedShifts statistic of the   *)
(* result.                                                                  *)
(***************************************************************************)
UnassignedMessages ==
  { k \in 1..Len(conflicts) : conflicts[k].kind = "Unassigned shift" }

C26_MessagesMatchStatistic ==
  pc = "done" => Cardinality(UnassignedMessages) = result.unassignedShifts

\* schedule() returned with two units or more unassigned, over pre-existing
\* assignments one of which is a primary in a slot of the horizon that has no
\* need, a need of two or more, and a slot that holds nothing but a follow-up
C26_Witness ==
  /\ pc = "done"
  /\ result.unassignedShifts >= 2
  /\ Cardinality(UnassignedMessages) >= 2
  /\ \E k \in 1..nExisting : \E st \in ShiftTypes :
       /\ IsPrimary(assignments[k])
       /\ assignments[k].date \in WorkingDates
       /\ st.id = assignments[k].shiftId
       /\ NeedOn(st, assignments[k].date) = 0
  /\ \E st \in ShiftTypes : \E d \in WorkingDates : NeedOn(st, d) >= 2
  /\ \E k \in Committed :
       /\ assignments[k].isFollowUp
       /\ PrimariesOn(assignments[k].date, assignments[k].shiftId) = {}

(***************************************************************************)
(* C27: a second run, on the returned assignment list given as              *)
(* existingAssignments with otherwise the same inputs or by a second call   *)
(* of schedule() on the same scheduler, commits no assignment: in every     *)
(* state of the second run the store is the assignment list the first run   *)
(* returned.                                                                *)
(***************************************************************************)
C27_ReschedulingIsIdempotent ==
  earlier.returned
    => /\ assignments = earlier.assignments
       /\ pc = "done" => result.totalAssignments = Len(earlier.assignments)

\* the second run, on the fed-back list, has returned: it found units still
\* unassigned and tried them again, and its sweep met the follow-ups that the
\* first run had committed and one it had rejected
C27_Witness ==
  /\ pc = "done"
  /\ earlier.returned
  /\ options.existingAssignments = earlier.assignments
  /\ options # earlier.options
  /\ result.unassignedShifts > 0
  /\ \E c \in Range(conflicts) : c.kind = "Unassigned shift"
  /\ \E c \in Range(conflicts) : c.kind = "Mandatory follow-up conflict"
  /\ \E k \in (Len(earlier.options.existingAssignments) + 1)..Len(assignments) :
       assignments[k].isFollowUp
  /\ \E k \in (Len(earlier.options.existingAssignments) + 1)..Len(assignments) :
       IsPrimary(assignments[k])

====
